---- MODULE Spec2Model ----
(***************************************************************************)
(* A model of lib/specs.js of swagger-tools as bundled in                  *)
(* browser/swagger-tools-min.js (module 1 of the bundle, line 2).          *)
(*                                                                         *)
(* Documents are abstracted to the parts the modelled code reads: the      *)
(* dialect tag, the resource path, the models (with subTypes / allOf,      *)
(* properties, required), the authorizations with their scopes, and two    *)
(* facts decided by the external libraries: the errors ZSchema reports    *)
(* for the document and whether the document holds a remote reference      *)
(* that JsonRefs has to fetch.  JSON pointers and paths are both tuples of *)
(* segments.                                                               *)
(***************************************************************************)
EXTENDS Naturals, Sequences, FiniteSets, TLC

VARIABLES
  cache,     \* c: the document cache, a sequence of cache entries in insertion order
  calls,     \* the API calls in flight or finished, one record per call
  libs,      \* per document, how often ZSchema validated it and JsonRefs.resolveRefs was invoked on it
  mentry,    \* the cache entry processDocument / getOrComposeSchema work on (unit level)
  mreport,   \* the results object the last operation filled, if it was processDocument
  mout,      \* what the last operation delivered, if it was the composeSchema callback
  mruns,     \* the number of processDocument runs on mentry (unit level)
  vcall,     \* the validator invoked and its arguments (validator level)
  vresult    \* what that invocation threw, if anything, and the findings it left

vars == <<cache, calls, libs, mentry, mreport, mout, mruns, vcall, vresult>>

-----------------------------------------------------------------------------
(* Generic helpers on sequences. *)

IndexOf(s, x) ==
  IF \E i \in 1..Len(s) : s[i] = x
    THEN CHOOSE i \in 1..Len(s) : s[i] = x /\ \A j \in 1..(i - 1) : s[j] # x
    ELSE 0

Contains(s, x) == \E i \in 1..Len(s) : s[i] = x

Reverse(s) == [i \in 1..Len(s) |-> s[Len(s) + 1 - i]]

Range(s) == {s[i] : i \in 1..Len(s)}

\* index.toString() of a zero-based array index
IdxStr(i) == <<"0", "1", "2", "3", "4", "5", "6", "7">>[i + 1]

RECURSIVE SeqsUpTo(_, _)
\* all sequences over S of length at most n
SeqsUpTo(S, n) ==
  IF n = 0 THEN {<<>>}
  ELSE LET shorter == SeqsUpTo(S, n - 1)
       IN shorter \cup {Append(s, x) : s \in shorter, x \in S}

NoRepeat(s) == \A i, j \in 1..Len(s) : i # j => s[i] # s[j]

-----------------------------------------------------------------------------
(* Documents. *)

\* one entry of the models / definitions object
Model(id, subTypes, allOf, properties) ==
  [key |-> id, id |-> id, subTypes |-> subTypes, allOf |-> allOf,
   properties |-> properties, required |-> <<>>]

\* a document; kind is "rl" (resource listing), "ad" (API declaration)
\* or "so" (2.0 swagger object); structural holds the codes of the errors
\* ZSchema reports for it against its meta-schema, remote says that resolving
\* its references takes a fetch
Document(version, kind, resourcePath, apis, models, authorizations, structural, remote) ==
  [swaggerVersion |-> version, kind |-> kind, resourcePath |-> resourcePath,
   apis |-> apis, models |-> models, authorizations |-> authorizations,
   structural |-> structural, remote |-> remote]

NoDocument == Document("", "none", "", <<>>, <<>>, <<>>, <<>>, FALSE)

ModelIdx(doc, id) ==
  IF \E i \in 1..Len(doc.models) : doc.models[i].key = id
    THEN CHOOSE i \in 1..Len(doc.models) : doc.models[i].key = id
    ELSE 0

\* the name of the models object: "models" (1.2) or "definitions" (2.0)
ModelsKey(version) == IF version = "1.2" THEN "models" ELSE "definitions"

ModelPtr(version, id) == <<ModelsKey(version), id>>

-----------------------------------------------------------------------------
(* Findings and results objects. *)

Finding(code, message, path) == [code |-> code, message |-> message, path |-> path]

\* the accumulator threaded through processDocument: the entry's definitions,
\* the results object, and whether the run died of a stack overflow
Acc(defs, errors, warnings) ==
  [defs |-> defs, errors |-> errors, warnings |-> warnings, crashed |-> FALSE]

\* d (createErrorOrWarning) with dest = results.errors / results.warnings
AddError(acc, code, message, path) ==
  [acc EXCEPT !.errors = Append(@, Finding(code, message, path))]

AddWarning(acc, code, message, path) ==
  [acc EXCEPT !.warnings = Append(@, Finding(code, message, path))]

\* a (getDisplayId): the last path segment for 1.2, the pointer for 2.0
getDisplayId(version, ptr) == IF version = "1.2" THEN <<ptr[Len(ptr)]>> ELSE ptr

\* the code word derived from the first segment of a definition path:
\* m.substring(0, m.length - 1).toUpperCase(), or SECURITY_DEFINITION
TypeCode(segment) ==
  CASE segment = "models" -> "MODEL"
    [] segment = "definitions" -> "DEFINITION"
    [] segment = "authorizations" -> "AUTHORIZATION"
    [] segment = "securityDefinitions" -> "SECURITY_DEFINITION"
    [] segment = "parameters" -> "PARAMETER"
    [] segment = "responses" -> "RESPONSE"
    [] OTHER -> "UNKNOWN"

IsScopePath(path) ==
  /\ path[1] \in {"authorizations", "securityDefinitions"}
  /\ Len(path) >= 3
  /\ path[3] = "scopes"

-----------------------------------------------------------------------------
(* The definition registry of one cache entry. *)

NewDefinition(path) ==
  [ptr |-> path, references |-> <<>>,
   isModel |-> path[1] \in {"definitions", "models"},
   cyclical |-> FALSE, hasLineage |-> FALSE, lineage |-> <<>>, parents |-> <<>>,
   scopePath |-> <<>>]

DefIdx(defs, ptr) ==
  IF \E i \in 1..Len(defs) : defs[i].ptr = ptr
    THEN CHOOSE i \in 1..Len(defs) : defs[i].ptr = ptr
    ELSE 0

\* t (getDefinitionMetadata): the tracked node, created on first sight
getDefinitionMetadata(defs, path) ==
  IF DefIdx(defs, path) # 0 THEN defs ELSE Append(defs, NewDefinition(path))

\* u.parents.push(ptr) on the definition at path
pushParent(defs, path, ptr) == [defs EXCEPT ![DefIdx(defs, path)].parents = Append(@, ptr)]

\* f (addReference): records refPtr on the definition at defPtr, or reports
\* UNRESOLVABLE_* when no such definition is tracked
addReference(version, acc, defPtr, refPtr, omitError) ==
  IF DefIdx(acc.defs, defPtr) = 0
    THEN [ok |-> FALSE,
          acc |-> IF omitError THEN acc
                  ELSE AddError(acc,
                                "UNRESOLVABLE_" \o TypeCode(defPtr[1])
                                  \o (IF IsScopePath(defPtr) THEN "_SCOPE" ELSE ""),
                                getDisplayId(version, defPtr), refPtr)]
    ELSE [ok |-> TRUE,
          acc |-> [acc EXCEPT !.defs[DefIdx(acc.defs, defPtr)].references = Append(@, refPtr)]]

\* v (validateNoExist)
validateNoExist(acc, data, val, codeSuffix, path, toWarnings) ==
  IF Contains(data, val)
    THEN IF toWarnings THEN AddWarning(acc, "DUPLICATE_" \o codeSuffix, <<val>>, path)
         ELSE AddError(acc, "DUPLICATE_" \o codeSuffix, <<val>>, path)
    ELSE acc

-----------------------------------------------------------------------------
(* E (processDocument): the walk that tracks definitions, computes lineage *)
(* and reports the inheritance findings.                                   *)

\* c = s.concat(["scopes", o.toString()]) for 1.2, with the scope name for 2.0
scopePath(version, s, a, o) ==
  s \o <<"scopes", IF version = "1.2" THEN IdxStr(o - 1) ELSE a>>

\* u = t(s.concat(["scopes", a])); u.scopePath = c
trackScope(defs, ptr, c) ==
  [getDefinitionMetadata(defs, ptr) EXCEPT
     ![DefIdx(getDefinitionMetadata(defs, ptr), ptr)].scopePath = c]

\* the authorization scopes of one authorization (the reduce over e.scopes)
RECURSIVE processScopes(_, _, _, _, _)
processScopes(version, acc, s, scopes, o) ==
  IF o > Len(scopes) THEN acc
  ELSE processScopes(
         version,
         validateNoExist(
           [acc EXCEPT !.defs = trackScope(@, s \o <<"scopes", scopes[o]>>,
                                           scopePath(version, s, scopes[o], o))],
           SubSeq(scopes, 1, o - 1), scopes[o], "AUTHORIZATION_SCOPE_DEFINITION",
           scopePath(version, s, scopes[o], o)
             \o (IF version = "1.2" THEN <<"scope">> ELSE <<>>),
           TRUE),
         s, scopes, o + 1)

\* s = [u, o]: the path of the authorization / security definition named name
authorizationPath(version, name) ==
  <<IF version = "1.2" THEN "authorizations" ELSE "securityDefinitions", name>>

\* r.each(e.resolved[u], ...): the authorizations / security definitions
RECURSIVE processAuthorizations(_, _, _, _)
processAuthorizations(version, acc, auths, i) ==
  IF i > Len(auths) THEN acc
  ELSE processAuthorizations(
         version,
         processScopes(version,
                       [acc EXCEPT !.defs = getDefinitionMetadata(
                                              @, authorizationPath(version, auths[i].name))],
                       authorizationPath(version, auths[i].name), auths[i].scopes, 1),
         auths, i + 1)

\* !u && e.resolved[p][r] && (u = t(s))
trackSubType(resolved, defs, r) ==
  IF DefIdx(defs, <<"models", r>>) = 0 /\ ModelIdx(resolved, r) # 0
    THEN getDefinitionMetadata(defs, <<"models", r>>) ELSE defs

\* f(e, s, d, n) && u.parents.push(o.pathToPointer(c))
subTypeParent(ref, s, c) ==
  IF ref.ok THEN [ref.acc EXCEPT !.defs = pushParent(@, s, c)] ELSE ref.acc

\* case "1.2": r.each(s.subTypes, ...) for the model at index k
RECURSIVE processSubTypes(_, _, _, _)
processSubTypes(resolved, acc, k, i) ==
  IF i > Len(resolved.models[k].subTypes) THEN acc
  ELSE processSubTypes(
         resolved,
         subTypeParent(
           addReference("1.2",
                        [acc EXCEPT !.defs = trackSubType(resolved, @,
                                                          resolved.models[k].subTypes[i])],
                        <<"models", resolved.models[k].subTypes[i]>>,
                        <<"models", resolved.models[k].key, "subTypes", IdxStr(i - 1)>>,
                        FALSE),
           <<"models", resolved.models[k].subTypes[i]>>,
           <<"models", resolved.models[k].key>>),
         k, i + 1)

\* d: the path an allOf member stands for, its target when it is a local $ref
allOfTarget(c, member, i) ==
  IF member.kind = "ref" THEN <<"definitions", member.target>>
  ELSE c \o <<"allOf", IdxStr(i - 1)>>

\* a = t(o.pathFromPointer(i.$ref)) for a $ref; u.parents.push(o.pathToPointer(d))
allOfParent(defs, c, member, i) ==
  pushParent(IF member.kind = "ref"
               THEN getDefinitionMetadata(defs, allOfTarget(c, member, i)) ELSE defs,
             c, allOfTarget(c, member, i))

\* a && f(e, d, p, n)
allOfReference(acc, c, member, i) ==
  IF member.kind = "ref"
    THEN addReference("2.0", acc, allOfTarget(c, member, i),
                      c \o <<"allOf", IdxStr(i - 1)>>, FALSE).acc
    ELSE acc

\* default: r.each(e.original[p][a].allOf, ...) for the model at index k
RECURSIVE processAllOf(_, _, _, _)
processAllOf(original, acc, k, i) ==
  IF i > Len(original.models[k].allOf) THEN acc
  ELSE processAllOf(
         original,
         allOfReference(
           [acc EXCEPT !.defs = allOfParent(@, <<"definitions", original.models[k].key>>,
                                            original.models[k].allOf[i], i)],
           <<"definitions", original.models[k].key>>, original.models[k].allOf[i], i),
         k, i + 1)

\* a !== s.id && d("MODEL_ID_MISMATCH", ...), 1.2 only
modelIdMismatch(version, acc, m) ==
  IF version = "1.2" /\ m.key # m.id
    THEN AddError(acc, "MODEL_ID_MISMATCH", <<m.id>>, <<ModelsKey(version), m.key, "id">>)
    ELSE acc

\* if (r.isUndefined(u.lineage)) switch (i) {...}: the parents of the model at
\* index k are recorded while its lineage is not yet computed
modelParents(original, resolved, acc, k) ==
  IF acc.defs[DefIdx(acc.defs, <<ModelsKey(original.swaggerVersion), resolved.models[k].key>>)]
       .hasLineage
    THEN acc
  ELSE IF original.swaggerVersion = "1.2" THEN processSubTypes(resolved, acc, k, 1)
  ELSE processAllOf(original, acc, k, 1)

\* r.each(e.resolved[p], ...): the models / definitions
RECURSIVE processModels(_, _, _, _)
processModels(original, resolved, acc, k) ==
  IF k > Len(resolved.models) THEN acc
  ELSE processModels(
         original, resolved,
         modelParents(
           original, resolved,
           modelIdMismatch(
             original.swaggerVersion,
             [acc EXCEPT !.defs = getDefinitionMetadata(
                                    @, <<ModelsKey(original.swaggerVersion),
                                         resolved.models[k].key>>)],
             resolved.models[k]),
           k),
         k + 1)

\* the deepest the walk can recurse without revisiting a definition other
\* than the one it started from; a deeper recursion never returns
StackLimit(defs) == Len(defs) + 1

NoWalk == [o |-> <<>>, overflow |-> FALSE]

\* c (walk): pushes every parent met while following the parents lists from
\* definition i, not following a parent equal to the start n
RECURSIVE walk(_, _, _, _), walkParents(_, _, _, _, _), walkOn(_, _, _, _, _, _)
walk(defs, n, i, fuel) ==
  IF fuel = 0 THEN [o |-> <<>>, overflow |-> TRUE]
  ELSE IF DefIdx(defs, i) = 0 THEN NoWalk
  ELSE walkParents(defs, n, defs[DefIdx(defs, i)].parents, 1, fuel)

\* r.each(t.parents, function (e) {o.push(e), n !== e && h(n, e, o)})
walkParents(defs, n, parents, j, fuel) ==
  IF j > Len(parents) THEN NoWalk
  ELSE walkOn(defs, n, parents, j, fuel,
              IF n # parents[j] THEN walk(defs, n, parents[j], fuel - 1) ELSE NoWalk)

\* o.push(e), what the walk below e pushed (sub), then the parents after e
walkOn(defs, n, parents, j, fuel, sub) ==
  IF sub.overflow THEN [o |-> <<>>, overflow |-> TRUE]
  ELSE [walkParents(defs, n, parents, j + 1, fuel) EXCEPT !.o = <<parents[j]>> \o sub.o \o @]

\* t.cyclical = h.length > 1 && h[0] === u
\* variant: the start is looked for at the other end of the lineage
IsCyclicalAtEnd(h, u) == Len(h) > 1 /\ h[Len(h)] = u

IsCyclical(h, u) == Len(h) > 1 /\ h[1] = u

\* the property names of the node of the resolved tree at path n: a model, or
\* an inline allOf member (which holds the content of its target)
RECURSIVE IdxOfStr(_, _)
IdxOfStr(str, i) == IF IdxStr(i) = str THEN i ELSE IdxOfStr(str, i + 1)

NodeExists(tree, n) ==
  /\ Len(n) \in {2, 4}
  /\ ModelIdx(tree, n[2]) # 0
  /\ Len(n) = 4 =>
       /\ n[3] = "allOf"
       /\ \E i \in 1..Len(tree.models[ModelIdx(tree, n[2])].allOf) : IdxStr(i - 1) = n[4]
       /\ ModelIdx(tree, tree.models[ModelIdx(tree, n[2])].allOf[IdxOfStr(n[4], 0) + 1].target) # 0

NodeProperties(tree, n) ==
  IF Len(n) = 2 THEN tree.models[ModelIdx(tree, n[2])].properties
  ELSE tree.models[ModelIdx(tree,
                            tree.models[ModelIdx(tree, n[2])]
                              .allOf[IdxOfStr(n[4], 0) + 1].target)].properties

\* the names collected from the ancestors: p, in first-seen order
RECURSIVE ancestorProperties(_, _, _, _)
ancestorProperties(resolved, h, i, p) ==
  IF i > Len(h) THEN p
  ELSE ancestorProperties(resolved, h, i + 1,
                          p \o SelectSeq(NodeProperties(resolved, h[i]),
                                         LAMBDA x : ~Contains(p, x)))

\* r.each(g.properties, ...): redeclaration check of the model's own properties
RECURSIVE ownProperties(_, _, _, _, _, _)
ownProperties(acc, code, l, props, p, i) ==
  IF i > Len(props) THEN acc
  ELSE ownProperties(
         IF Contains(p, props[i])
           THEN AddError(acc, "CHILD_" \o code \o "_REDECLARES_PROPERTY", <<props[i]>>,
                         l \o <<"properties", props[i]>>)
           ELSE acc,
         code, l, props, p, i + 1)

\* r.each(g.required || [], ...)
RECURSIVE requiredProperties(_, _, _, _, _, _)
requiredProperties(acc, l, required, p, own, i) ==
  IF i > Len(required) THEN acc
  ELSE requiredProperties(
         IF ~Contains(p, required[i]) /\ ~Contains(own, required[i])
           THEN AddError(acc, "MISSING_REQUIRED_MODEL_PROPERTY", <<required[i]>>,
                         l \o <<"required", IdxStr(i - 1)>>)
           ELSE acc,
         l, required, p, own, i + 1)

\* h = t.lineage, computed by the walk when it is still undefined
lineageOf(defs, t) ==
  IF t.hasLineage THEN [o |-> Reverse(t.lineage), overflow |-> FALSE]
  ELSE walk(defs, t.ptr, t.ptr, StackLimit(defs))

\* t.parents.length > 1 && "1.2" === i && d("MULTIPLE_..._INHERITANCE", ...)
multipleInheritance(version, acc, t) ==
  IF Len(t.parents) > 1 /\ version = "1.2"
    THEN AddError(acc, "MULTIPLE_" \o TypeCode(t.ptr[1]) \o "_INHERITANCE",
                  [i \in 1..Len(t.parents) |-> getDisplayId(version, t.parents[i])[1]],
                  t.ptr)
    ELSE acc

\* t.cyclical && d("CYCLICAL_..._INHERITANCE", ...)
cyclicalInheritance(version, acc, u, h, cyclical) ==
  IF cyclical
    THEN AddError(acc, "CYCLICAL_" \o TypeCode(u[1]) \o "_INHERITANCE",
                  [i \in 1..Len(h) |-> getDisplayId(version, h[i])]
                    \o <<getDisplayId(version, u)>>,
                  u \o <<IF version = "1.2" THEN "subTypes" ELSE "allOf">>)
    ELSE acc

\* the property checks of model g at path u, p being the ancestors' properties
modelProperties(acc, u, g, p) ==
  requiredProperties(ownProperties(acc, TypeCode(u[1]), u, g.properties, p, 1),
                     u, g.required, p,
                     SelectSeq(g.properties, LAMBDA x : ~Contains(p, x)), 1)

\* the ancestors' properties are read from the resolved tree and the model
\* from the original; a path with no node there makes the read throw
inheritedProperties(original, resolved, acc, u, ancestors) ==
  IF \/ \E i \in 1..Len(ancestors) : ~NodeExists(resolved, ancestors[i])
     \/ ~NodeExists(original, u)
    THEN [acc EXCEPT !.crashed = TRUE]
    ELSE modelProperties(acc, u, original.models[ModelIdx(original, u[2])],
                         ancestorProperties(resolved, ancestors, 1, <<>>))

\* the findings of the definition at index k once its lineage h is known
inheritance(original, resolved, acc, k, h, cyclical) ==
  inheritedProperties(
    original, resolved,
    cyclicalInheritance(
      original.swaggerVersion,
      multipleInheritance(
        original.swaggerVersion,
        [acc EXCEPT !.defs[k].lineage = h, !.defs[k].hasLineage = TRUE,
                    !.defs[k].cyclical = cyclical],
        acc.defs[k]),
      acc.defs[k].ptr, h, cyclical),
    acc.defs[k].ptr,
    SubSeq(h, IF cyclical THEN 2 ELSE 1, Len(h)))

\* h.reverse(), t.lineage = h, t.cyclical = ...; w is what the walk returned
withLineage(original, resolved, acc, k, w) ==
  IF w.overflow THEN [acc EXCEPT !.crashed = TRUE]
  ELSE inheritance(original, resolved, acc, k, Reverse(w.o),
                   IF acc.defs[k].hasLineage THEN acc.defs[k].cyclical
                   ELSE IsCyclical(Reverse(w.o), acc.defs[k].ptr))

\* the body of r.each(e.definitions, ...) for the definition at index k
processDefinition(original, resolved, acc, k) ==
  IF ~acc.defs[k].isModel \/ acc.crashed THEN acc
  ELSE withLineage(original, resolved, acc, k, lineageOf(acc.defs, acc.defs[k]))

RECURSIVE processDefinitions(_, _, _, _)
processDefinitions(original, resolved, acc, k) ==
  IF k > Len(acc.defs) THEN acc
  ELSE processDefinitions(original, resolved,
                          processDefinition(original, resolved, acc, k), k + 1)

\* JsonRefs.findRefs(original) as a sequence of <<reference, pointer>> pairs in
\* document order; of the modelled parts only allOf members hold a $ref
RECURSIVE findRefsOfModel(_, _, _)
findRefsOfModel(version, m, i) ==
  IF i > Len(m.allOf) THEN <<>>
  ELSE (IF m.allOf[i].kind = "ref"
          THEN <<[ref |-> <<"definitions", m.allOf[i].target>>,
                  ptr |-> <<"definitions", m.key, "allOf", IdxStr(i - 1), "$ref">>]>>
          ELSE <<>>) \o findRefsOfModel(version, m, i + 1)

RECURSIVE findRefs(_, _)
findRefs(doc, k) ==
  IF k > Len(doc.models) THEN <<>>
  ELSE findRefsOfModel(doc.swaggerVersion, doc.models[k], 1) \o findRefs(doc, k + 1)

\* r.each(o.findRefs(e.original), ...): every local reference is counted;
\* not reached when the loop over the definitions threw
RECURSIVE processReferences(_, _, _, _)
processReferences(version, acc, refs, i) ==
  IF i > Len(refs) \/ acc.crashed THEN acc
  ELSE processReferences(version,
                         addReference(version, acc, refs[i].ref, refs[i].ptr, FALSE).acc,
                         refs, i + 1)

\* E (processDocument) on a cache entry, appending to the results in acc;
\* on an entry without a resolved tree the first read of e.resolved throws
processDocument(entry, acc) ==
  IF ~entry.hasResolved THEN [acc EXCEPT !.crashed = TRUE]
  ELSE processReferences(
         entry.swaggerVersion,
         processDefinitions(
           entry.original, entry.resolved,
           processModels(
             entry.original, entry.resolved,
             processAuthorizations(entry.swaggerVersion, acc,
                                   entry.resolved.authorizations, 1),
             1),
           1),
         findRefs(entry.original, 1), 1)

-----------------------------------------------------------------------------
(* Cache entries, formatResults, getOrComposeSchema and the composeSchema  *)
(* callback.                                                               *)

\* the tree JsonRefs.resolveRefs hands back: every reference replaced by its
\* target, so local allOf references become inline members and nothing is
\* left to fetch
ResolveTree(doc) ==
  [doc EXCEPT
     !.remote = FALSE,
     !.models = [k \in 1..Len(doc.models) |->
                   [doc.models[k] EXCEPT
                      !.allOf = [i \in 1..Len(doc.models[k].allOf) |->
                                   [kind |-> "inline",
                                    target |-> doc.models[k].allOf[i].target]]]]]

\* the entry g (getDocumentCache) creates for a document seen for the first time
NewEntry(doc) ==
  [original |-> doc, hasResolved |-> FALSE, resolved |-> NoDocument,
   resolvedId |-> NoDocument, definitions |-> <<>>,
   swaggerVersion |-> doc.swaggerVersion]

\* the entry once resolveRefs (O) has stored the resolved tree and its hash
ResolvedEntry(entry, tree) ==
  [entry EXCEPT !.hasResolved = TRUE, !.resolved = tree, !.resolvedId = tree]

\* the number of findings l (formatResults) counts: the top-level errors and
\* warnings plus those of every defined apiDeclarations member
RECURSIVE CountDeclarations(_, _)
CountDeclarations(decls, i) ==
  IF i > Len(decls) THEN 0
  ELSE (IF decls[i].defined
          THEN Len(decls[i].errors) + Len(decls[i].warnings) ELSE 0)
       + CountDeclarations(decls, i + 1)

CountFindings(results) ==
  Len(results.errors) + Len(results.warnings) + CountDeclarations(results.apiDeclarations, 1)

\* a results object as passed around: defined is FALSE for JavaScript's
\* undefined; apiDeclarations is empty when the object has no such member
Results(errors, warnings, decls) ==
  [defined |-> TRUE, errors |-> errors, warnings |-> warnings, apiDeclarations |-> decls]

Undefined == [defined |-> FALSE, errors |-> <<>>, warnings |-> <<>>, apiDeclarations |-> <<>>]

\* variant: only the top-level errors and warnings are counted
formatResultsTopLevel(results) ==
  IF ~results.defined THEN results
  ELSE IF Len(results.errors) + Len(results.warnings) > 0 THEN results ELSE Undefined

\* l (formatResults): the results when they hold a finding, else undefined
formatResults(results) ==
  IF ~results.defined THEN results
  ELSE IF CountFindings(results) > 0 THEN results ELSE Undefined

\* the properties of a composed schema, flattened: one record per property
\* occurrence, with the allOf indices leading to the schema that declares it
Prefix(k, occs) == [i \in 1..Len(occs) |-> [occs[i] EXCEPT !.at = <<k>> \o @]]

OwnOccurrences(props) == [i \in 1..Len(props) |-> [name |-> props[i], at |-> <<>>]]

NoSchema == [defined |-> FALSE, overflow |-> FALSE, title |-> <<>>, occurrences |-> <<>>]

NoMembers == [overflow |-> FALSE, occurrences |-> <<>>]

\* i.allOf.push(member): the occurrences of member one at allOf[k - 1], in
\* front of those of the members after it
pushMember(k, one, rest) ==
  [overflow |-> rest.overflow,
   occurrences |-> Prefix(k - 1, one.occurrences) \o rest.occurrences]

\* the schema of n: its own properties and the members composed into allOf
composed(entry, n, sub) ==
  [defined |-> TRUE, overflow |-> sub.overflow,
   title |-> <<"Composed">> \o getDisplayId(entry.swaggerVersion, n),
   occurrences |->
     OwnOccurrences(entry.resolved.models[ModelIdx(entry.resolved, n[2])].properties)
       \o sub.occurrences]

\* p (getOrComposeSchema); fuel bounds the recursion as StackLimit does
RECURSIVE getOrComposeSchema(_, _, _), composeLineage(_, _, _, _), composeAllOf(_, _, _, _)
RECURSIVE lineageMember(_, _, _, _, _), allOfMember(_, _, _, _, _)
getOrComposeSchema(entry, n, fuel) ==
  IF fuel = 0 THEN [NoSchema EXCEPT !.overflow = TRUE]
  ELSE IF DefIdx(entry.definitions, n) = 0 THEN NoSchema
  ELSE composed(entry, n,
                IF entry.swaggerVersion = "1.2"
                  THEN composeLineage(entry,
                                      entry.definitions[DefIdx(entry.definitions, n)].lineage,
                                      1, fuel)
                  ELSE composeAllOf(entry,
                                    entry.resolved.models[ModelIdx(entry.resolved, n[2])].allOf,
                                    1, fuel))

\* i.allOf = []; each lineage member is composed and pushed
composeLineage(entry, lineage, k, fuel) ==
  IF k > Len(lineage) THEN NoMembers
  ELSE lineageMember(entry, lineage, k, fuel,
                     getOrComposeSchema(entry, lineage[k], fuel - 1))

lineageMember(entry, lineage, k, fuel, one) ==
  IF one.overflow THEN [overflow |-> TRUE, occurrences |-> <<>>]
  ELSE pushMember(k, one, composeLineage(entry, lineage, k + 1, fuel))

\* 2.0: the clone of the resolved node already holds its allOf members inline
composeAllOf(entry, allOf, k, fuel) ==
  IF k > Len(allOf) THEN NoMembers
  ELSE allOfMember(entry, allOf, k, fuel,
                   getOrComposeSchema(entry, <<"definitions", allOf[k].target>>, fuel - 1))

allOfMember(entry, allOf, k, fuel, one) ==
  IF one.overflow THEN [overflow |-> TRUE, occurrences |-> <<>>]
  ELSE pushMember(k, one, composeAllOf(entry, allOf, k + 1, fuel))

\* what the callback of composeSchema ends in: kind says what the caller's
\* callback receives, entry is the cache entry afterwards
Outcome(kind, results, schema, entry) ==
  [kind |-> kind, results |-> results, schema |-> schema, entry |-> entry]

\* variant: the schema is composed in the resolved tree itself, whose
\* models lose their subTypes and their allOf members
composeDeliveredInPlace(entry, schema) ==
  IF schema.overflow THEN Outcome("crash", Undefined, NoSchema, entry)
  ELSE Outcome("schema", Undefined, schema,
               [entry EXCEPT !.resolved.models =
                  [k \in 1..Len(@) |-> [@[k] EXCEPT !.subTypes = <<>>, !.allOf = <<>>]]])

\* o(void 0, p(t, n)): the composed schema is delivered
composeDelivered(entry, schema) ==
  IF schema.overflow THEN Outcome("crash", Undefined, NoSchema, entry)
  ELSE Outcome("schema", Undefined, schema, entry)

\* t.definitions[n] ? (l(i) ? m(i, o) : o(void 0, p(t, n))) : o(), run being
\* what E(t, i) left
composeProcessed(entry, n, run) ==
  IF run.crashed THEN Outcome("crash", Undefined, NoSchema, entry)
  ELSE IF DefIdx(run.defs, n) = 0 THEN Outcome("absent", Undefined, NoSchema, entry)
  ELSE IF formatResults(Results(run.errors, run.warnings, <<>>)).defined
    THEN Outcome("invalid", Results(run.errors, run.warnings, <<>>), NoSchema, entry)
  ELSE composeDelivered(entry, getOrComposeSchema(entry, n, StackLimit(run.defs)))

\* t = g(e), i = {errors: [], warnings: []}, E(t, i): run is what E left,
\* its definitions being those of the cache entry
composeRun(entry, n, run) == composeProcessed([entry EXCEPT !.definitions = run.defs], n, run)

\* s, the callback composeSchema hands to validateAgainstSchema: err and
\* results are what structural validation delivered; the outcome is what the
\* caller's callback receives (kind), with the entry's definitions afterwards
composeSchemaCallback(entry, n, err, results) ==
  IF err THEN Outcome("error", Undefined, NoSchema, entry)
  ELSE IF formatResults(results).defined THEN Outcome("invalid", results, NoSchema, entry)
  ELSE composeRun(entry, n, processDocument(entry, Acc(entry.definitions, <<>>, <<>>)))

-----------------------------------------------------------------------------
(* The document cache and the semantic validators.                         *)

\* the entry g (getDocumentCache) finds for a document: the one stored under
\* the document's own hash, else the first whose resolved tree has that hash
CacheIdx(entries, doc) ==
  IF \E i \in 1..Len(entries) : entries[i].original = doc
    THEN CHOOSE i \in 1..Len(entries) : entries[i].original = doc
  ELSE IF \E i \in 1..Len(entries) : entries[i].hasResolved /\ entries[i].resolvedId = doc
    THEN CHOOSE i \in 1..Len(entries) :
           /\ entries[i].hasResolved /\ entries[i].resolvedId = doc
           /\ \A j \in 1..(i - 1) : ~(entries[j].hasResolved /\ entries[j].resolvedId = doc)
  ELSE 0

\* g (getDocumentCache): the cache afterwards, with a new entry when none is found
getDocumentCache(entries, doc) ==
  IF CacheIdx(entries, doc) # 0 THEN entries ELSE Append(entries, NewEntry(doc))

\* the definitions of the entry of doc, which E and the validators mutate in place
setDefinitions(entries, doc, defs) ==
  [entries EXCEPT ![CacheIdx(entries, doc)].definitions = defs]

\* variant: unused definitions are reported as errors
RECURSIVE validateUnusedAsErrors(_, _, _, _)
validateUnusedAsErrors(version, defs, acc, k) ==
  IF k > Len(defs) THEN acc
  ELSE validateUnusedAsErrors(
         version, defs,
         IF Len(defs[k].references) = 0
           THEN AddError(acc,
                         "UNUSED_" \o TypeCode(defs[k].ptr[1])
                           \o (IF defs[k].scopePath # <<>> THEN "_SCOPE" ELSE ""),
                         getDisplayId(version, defs[k].ptr),
                         IF defs[k].scopePath # <<>> THEN defs[k].scopePath ELSE defs[k].ptr)
           ELSE acc,
         k + 1)

\* T (validateUnused): an UNUSED_* warning per definition nobody references
RECURSIVE validateUnused(_, _, _, _)
validateUnused(version, defs, acc, k) ==
  IF k > Len(defs) THEN acc
  ELSE validateUnused(
         version, defs,
         IF Len(defs[k].references) = 0
           THEN AddWarning(acc,
                           "UNUSED_" \o TypeCode(defs[k].ptr[1])
                             \o (IF defs[k].scopePath # <<>> THEN "_SCOPE" ELSE ""),
                           getDisplayId(version, defs[k].ptr),
                           IF defs[k].scopePath # <<>> THEN defs[k].scopePath ELSE defs[k].ptr)
           ELSE acc,
         k + 1)

\* j (validateExist)
validateExist(acc, data, val, codeSuffix, path) ==
  IF ~Contains(data, val)
    THEN AddError(acc, "UNRESOLVABLE_" \o codeSuffix, <<val>>, path)
    ELSE acc

\* the first reduce of S: duplicate paths of the resource listing's apis
RECURSIVE resourcePaths(_, _, _)
resourcePaths(acc, apis, n) ==
  IF n > Len(apis) THEN acc
  ELSE resourcePaths(validateNoExist(acc, SubSeq(apis, 1, n - 1), apis[n], "RESOURCE_PATH",
                                     <<"apis", IdxStr(n - 1), "path">>, FALSE),
                     apis, n + 1)

\* T(p, void 0, u, ...) after E(p, u), which is not reached when E threw
unusedDefinitions(version, u) ==
  IF u.crashed THEN u ELSE validateUnused(version, u.defs, u, 1)

\* the body of the reduce of S over the API declarations, for the one at
\* index o (one-based) with cache entry p: its own results object u
declarationOf(p, a, ads, o) ==
  unusedDefinitions(
    p.swaggerVersion,
    processDocument(
      p,
      validateExist(
        validateNoExist(Acc(p.definitions, <<>>, <<>>),
                        [k \in 1..(o - 1) |-> ads[k].resourcePath],
                        ads[o].resourcePath, "RESOURCE_PATH", <<"resourcePath">>, FALSE),
        a, ads[o].resourcePath, "RESOURCE_PATH", <<"resourcePath">>)))

\* the reduce of S over the API declarations, from index o on; found is the
\* cache once p = g(ads[o]) has been looked up, u the results of ads[o]
RECURSIVE declarations(_, _, _, _, _), declaration(_, _, _, _, _), declared(_, _, _, _, _, _)
declarations(entries, a, ads, o, decls) ==
  IF o > Len(ads) THEN [entries |-> entries, decls |-> decls, crashed |-> FALSE]
  ELSE declaration(getDocumentCache(entries, ads[o]), a, ads, o, decls)

declaration(found, a, ads, o, decls) ==
  declared(found, a, ads, o, decls,
           declarationOf(found[CacheIdx(found, ads[o])], a, ads, o))

declared(found, a, ads, o, decls, u) ==
  IF u.crashed
    THEN [entries |-> setDefinitions(found, ads[o], u.defs), decls |-> decls,
          crashed |-> TRUE]
    ELSE declarations(setDefinitions(found, ads[o], u.defs), a, ads, o + 1,
                      Append(decls, [defined |-> TRUE, errors |-> u.errors,
                                     warnings |-> u.warnings]))

\* the resource paths of the listing that no API declaration has: each gets
\* an UNUSED_RESOURCE_PATH finding, pushed onto the errors
RECURSIVE unusedResourcePaths(_, _, _, _)
unusedResourcePaths(acc, a, t, n) ==
  IF n > Len(a) THEN acc
  ELSE unusedResourcePaths(
         IF ~Contains(t, a[n])
           THEN AddError(acc, "UNUSED_RESOURCE_PATH", <<a[IndexOf(a, a[n])]>>,
                         <<"apis", IdxStr(IndexOf(a, a[n]) - 1), "path">>)
           ELSE acc,
         a, t, n + 1)

\* what a semantic validator ends in: the cache afterwards, whether an
\* exception left it, and the results object
Validated(entries, crashed, results) ==
  [entries |-> entries, crashed |-> crashed, results |-> results]

\* the end of S: c with the warnings of T and the unused resource paths
validatorResults(entries, decls, c) ==
  Validated(entries, FALSE, Results(c.errors, c.warnings, decls))

\* S after the reduce over the API declarations (ds): T(s, void 0, c, ...)
\* on the listing's definitions, then the unused resource paths
afterDeclarations(rl, ads, c, ds) ==
  IF ds.crashed THEN Validated(ds.entries, TRUE, Undefined)
  ELSE validatorResults(
         ds.entries, ds.decls,
         unusedResourcePaths(
           validateUnused(rl.swaggerVersion,
                          ds.entries[CacheIdx(ds.entries, rl)].definitions,
                          [c EXCEPT !.defs = ds.entries[CacheIdx(ds.entries, rl)].definitions],
                          1),
           rl.apis, [k \in 1..Len(ads) |-> ads[k].resourcePath], 1))

\* S after E(s, c) on the resource listing
afterListing(entries, rl, ads, c) ==
  IF c.crashed THEN Validated(setDefinitions(entries, rl, c.defs), TRUE, Undefined)
  ELSE afterDeclarations(rl, ads, c,
                         declarations(setDefinitions(entries, rl, c.defs),
                                      rl.apis, ads, 1, <<>>))

\* S (validateSemantically for 1.2): the results object c and the cache afterwards
validateSemantically12(entries, rl, ads) ==
  afterListing(entries, rl, ads,
               processDocument(entries[CacheIdx(entries, rl)],
                               resourcePaths(Acc(entries[CacheIdx(entries, rl)].definitions,
                                                 <<>>, <<>>),
                                             rl.apis, 1)))

\* the end of U: T(o, void 0, t, ...) on what E left
objectResults(entries, so, t) ==
  IF t.crashed THEN Validated(setDefinitions(entries, so, t.defs), TRUE, Undefined)
  ELSE validatorResults(setDefinitions(entries, so, t.defs), <<>>,
                      validateUnused(so.swaggerVersion, t.defs, t, 1))

\* U (validateSemantically for 2.0) on a document without paths and security
validateSemantically20(entries, so) ==
  objectResults(entries, so,
                processDocument(entries[CacheIdx(entries, so)],
                                Acc(entries[CacheIdx(entries, so)].definitions, <<>>, <<>>)))

\* the results of a validator run through l (formatResults) on the way to
\* the callback; raw keeps what the validator built
formatted(r) ==
  [entries |-> r.entries, crashed |-> r.crashed,
   results |-> formatResults(r.results), raw |-> r.results]

\* A (validateSemantically): the dialect's validator
validateSemantically(version, entries, doc, ads) ==
  formatted(IF version = "1.2" THEN validateSemantically12(entries, doc, ads)
            ELSE validateSemantically20(entries, doc))

-----------------------------------------------------------------------------
(* API calls.  A call runs synchronously until it waits for                *)
(* JsonRefs.resolveRefs; each of its pending resolutions completes in a    *)
(* step of its own, in any order.  The operators below transform a world   *)
(* w = [cache, libs, call]: the shared state plus the record of the call   *)
(* being advanced.  Where a callback is handed on, the operator returns a  *)
(* step: the world, the callback that runs next (then) and the results it  *)
(* is called with (s).                                                     *)

NoValue == [kind |-> "none", tree |-> NoDocument, node |-> <<>>, schema |-> NoSchema]

UndefinedDeclaration == [defined |-> FALSE, errors |-> <<>>, warnings |-> <<>>]

NoArray == [shape |-> "absent", items |-> <<>>]

NoArgument == [kind |-> "undefined", path |-> <<>>]

\* a call that has not been made
IdleCall ==
  [op |-> "none", version |-> "", doc |-> NoDocument, subs |-> NoArray,
   ref |-> <<>>, second |-> NoArgument, pc |-> "idle", pending |-> {},
   results |-> <<>>, completed |-> 0, neutral |-> FALSE, thrown |-> "", cbs |-> <<>>,
   order |-> <<>>, failed |-> {}, raw |-> Undefined,
   used |-> [zschema |-> 0, jsonrefs |-> 0], after |-> {}]

isUndefined(doc) == doc.kind = "absent"

isPlainObject(doc) == doc.kind \in {"rl", "ad", "so"}

\* e.results of the error validateAgainstSchema throws: ZSchema's errors
StructuralResults(doc) ==
  Results([i \in 1..Len(doc.structural) |-> Finding(doc.structural[i], <<>>, <<>>)],
          <<>>, <<>>)

\* then: "callback" when the callback handed to P runs next, "final" when the
\* callback handed to validateStructurally does, "wait" when nothing runs
\* before a resolution completes or the call is over
Step(w, then, s) == [w |-> w, then |-> then, s |-> s]

\* the caller's callback is invoked
deliver(w, err, report, value) ==
  [w EXCEPT !.call.cbs = Append(@, [err |-> err, report |-> report, value |-> value]),
            !.call.pc = "returned"]

\* an exception leaves the running callback chain: nothing more is delivered
crash(w) == [w EXCEPT !.call.pc = "crashed"]

throw(w, name) == [w EXCEPT !.call.pc = "threw", !.call.thrown = name]

\* O (resolveRefs) once the cache entry is at hand: it returns the cached
\* tree or waits for JsonRefs
resolveEntry(w, unit, doc) ==
  IF w.cache[CacheIdx(w.cache, doc)].hasResolved
    THEN [w |-> w, outcome |-> "resolved"]
    ELSE [w |-> [w EXCEPT !.libs[doc].jsonrefs = @ + 1,
                          !.call.used.jsonrefs = @ + 1,
                          !.call.pending = @ \cup {unit}],
          outcome |-> "pending"]

\* O (resolveRefs) up to the point where it returns or waits for JsonRefs
resolveRefs(w, unit, doc) ==
  resolveEntry([w EXCEPT !.cache = getDocumentCache(@, doc)], unit, doc)

\* P (validateAgainstSchema of specs.js) up to the same point: u finds no
\* remote reference (it tests the pointers, which are local), ZSchema
\* validates, and a document without structural errors goes on to O
validateAgainstSchema(w, unit, doc) ==
  IF doc.structural # <<>>
    THEN [w |-> [w EXCEPT !.libs[doc].zschema = @ + 1, !.call.used.zschema = @ + 1],
          outcome |-> "findings"]
    ELSE resolveRefs([w EXCEPT !.libs[doc].zschema = @ + 1, !.call.used.zschema = @ + 1],
                     unit, doc)

\* P on the top-level document: its callback runs at once, with ZSchema's
\* results or with none, unless O waits for JsonRefs
structurally(r, doc) ==
  IF r.outcome = "findings" THEN Step(r.w, "callback", StructuralResults(doc))
  ELSE IF r.outcome = "resolved" THEN Step(r.w, "callback", Undefined)
  ELSE Step(r.w, "wait", Undefined)

\* the callback of JsonRefs.resolveRefs in O on success: the entry taken
\* when O started gets the resolved tree and its hash
storeResolved(entries, doc) ==
  [entries EXCEPT ![CacheIdx(entries, doc)] = ResolvedEntry(@, ResolveTree(doc))]

\* A's callback in validate: a throw inside A leaves the chain, else the
\* caller's callback gets the formatted results
semanticCallback(w, sem) ==
  IF sem.crashed THEN crash([w EXCEPT !.cache = sem.entries])
  ELSE deliver([w EXCEPT !.cache = sem.entries, !.call.raw = sem.raw],
               "none", sem.results, NoValue)

\* variant: only the findings of the top-level document keep A from running
validateCallbackTopLevel(step) ==
  IF step.then # "final" THEN step.w
  ELSE IF formatResultsTopLevel(step.s).defined
    THEN deliver([step.w EXCEPT !.call.raw = step.s], "none", step.s, NoValue)
  ELSE semanticCallback(step.w,
                        validateSemantically(step.w.call.version, step.w.cache,
                                             step.w.call.doc, step.w.call.subs.items))

\* the callback validate hands to validateStructurally, without an error:
\* r || l(o) ? i(r, o) : A(this, e, n, i)
validateCallback(step) ==
  IF step.then # "final" THEN step.w
  ELSE IF formatResults(step.s).defined
    THEN deliver([step.w EXCEPT !.call.raw = step.s], "none", step.s, NoValue)
  ELSE semanticCallback(step.w,
                        validateSemantically(step.w.call.version, step.w.cache,
                                             step.w.call.doc, step.w.call.subs.items))

\* variant: results.push(v), the results in the order of completion
mapStoreOnArrival(results, index, v) ==
  LET k == CHOOSE k \in 1..Len(results) :
             ~results[k].set /\ \A j \in 1..(k - 1) : results[j].set
  IN [results EXCEPT ![k] = [set |-> TRUE, value |-> v]]

\* async.map: results[x.index] = v; set tells a stored undefined from a
\* slot nothing was stored in
mapStore(results, index, v) == [results EXCEPT ![index] = [set |-> TRUE, value |-> v]]

\* the iterator's callback for sub-document i without an error
unitDone(w, i, v) ==
  [w EXCEPT !.call.results = mapStore(@, i, v),
            !.call.completed = @ + 1,
            !.call.order = Append(@, i)]

\* completed >= arr.length && callback(): the final callback of async.map
\* without an error copies the per-document results into apiDeclarations by
\* index and calls the callback of validateStructurally
mapFinal(w) ==
  IF w.call.completed >= Len(w.call.subs.items) /\ ~w.call.neutral
    THEN Step(w, "final",
              Results(<<>>, <<>>,
                      [i \in 1..Len(w.call.results) |-> w.call.results[i].value]))
    ELSE Step(w, "wait", Undefined)

\* variant: the final callback is not replaced after the first error
unitFailedRepeats(w, i) ==
  deliver([w EXCEPT !.call.failed = @ \cup {i}, !.call.order = Append(@, i)],
          "failure", Undefined, NoValue)

\* the iterator's callback for sub-document i with an error: the final
\* callback gets the error once and is then replaced by a no-op
unitFailed(w, i) ==
  IF w.call.neutral
    THEN [w EXCEPT !.call.failed = @ \cup {i}, !.call.order = Append(@, i)]
    ELSE deliver([w EXCEPT !.call.failed = @ \cup {i}, !.call.order = Append(@, i),
                           !.call.neutral = TRUE],
                 "failure", Undefined, NoValue)

\* the iterator of async.map on sub-document i, r being what P came to: its
\* callback runs at once unless O waits for JsonRefs
iterator(r, i, d) ==
  IF r.outcome = "findings"
    THEN unitDone(r.w, i, [defined |-> TRUE, errors |-> StructuralResults(d).errors,
                           warnings |-> <<>>])
  ELSE IF r.outcome = "resolved" THEN unitDone(r.w, i, UndefinedDeclaration)
  ELSE r.w

\* async.map(apiDeclarations, ...): every sub-document is started in turn;
\* only the last of them can be the one that completes the map
RECURSIVE fanOut(_, _)
fanOut(w, i) ==
  IF i > Len(w.call.subs.items) THEN w
  ELSE fanOut(iterator(validateAgainstSchema(w, i, w.call.subs.items[i]),
                       i, w.call.subs.items[i]),
              i + 1)

\* the callback validateStructurally (I) hands to P for the top-level
\* document, without an error
validateStructurallyCallback(step) ==
  IF step.then # "callback" THEN step
  ELSE IF step.s.defined \/ step.w.call.version # "1.2" THEN Step(step.w, "final", step.s)
  ELSE mapFinal(fanOut([step.w EXCEPT !.call.results =
                                        [i \in 1..Len(step.w.call.subs.items) |->
                                           [set |-> FALSE, value |-> UndefinedDeclaration]]],
                       1))

\* variant: the check that apiDeclarations is an array is left out
validateArgumentsNoArrayCheck(c) ==
  IF isUndefined(c.doc) THEN "Error"
  ELSE IF ~isPlainObject(c.doc) THEN "TypeError"
  ELSE IF c.version = "1.2" /\ c.subs.shape = "absent" THEN "Error"
  ELSE ""

\* the argument checks at the head of D.prototype.validate: the name of the
\* error thrown, or "" when the arguments pass
validateArguments(c) ==
  IF isUndefined(c.doc) THEN "Error"
  ELSE IF ~isPlainObject(c.doc) THEN "TypeError"
  ELSE IF c.version = "1.2" /\ c.subs.shape = "absent" THEN "Error"
  ELSE IF c.version = "1.2" /\ c.subs.shape # "array" THEN "TypeError"
  ELSE ""

\* D.prototype.validate up to the callback of P
validate(w) ==
  IF validateArguments(w.call) # "" THEN Step(throw(w, validateArguments(w.call)), "wait", Undefined)
  ELSE structurally(validateAgainstSchema(w, 0, w.call.doc), w.call.doc)

\* the callback D.prototype.resolve hands to P, without an error; n, the
\* second argument of the call, is what the callback tests, and
\* pathFromPointer throws on anything that is not a string
resolveCallback(step) ==
  IF step.then # "callback" THEN step.w
  ELSE IF formatResults(step.s).defined THEN deliver(step.w, "invalid", step.s, NoValue)
  ELSE IF step.w.call.second.kind = "undefined"
    THEN deliver(step.w, "none", Undefined,
                 [NoValue EXCEPT
                    !.kind = "tree",
                    !.tree = step.w.cache[CacheIdx(step.w.cache, step.w.call.doc)].resolved])
  ELSE IF step.w.call.second.kind = "pointer"
    THEN deliver(step.w, "none", Undefined,
                 [NoValue EXCEPT
                    !.kind = "node",
                    !.tree = step.w.cache[CacheIdx(step.w.cache, step.w.call.doc)].resolved,
                    !.node = step.w.call.second.path])
  ELSE crash(step.w)

\* t = g(e); t.resolved ? i(void 0, t.resolved) : P(...)
resolveCached(w) ==
  IF w.cache[CacheIdx(w.cache, w.call.doc)].hasResolved
    THEN Step(deliver(w, "none", Undefined,
                      [NoValue EXCEPT
                         !.kind = "tree",
                         !.tree = w.cache[CacheIdx(w.cache, w.call.doc)].resolved]),
              "wait", Undefined)
    ELSE structurally(validateAgainstSchema(w, 0, w.call.doc), w.call.doc)

\* D.prototype.resolve up to the callback of P: the callback is always taken
\* from the second argument
resolve(w) ==
  IF isUndefined(w.call.doc) THEN Step(throw(w, "Error"), "wait", Undefined)
  ELSE IF ~isPlainObject(w.call.doc) THEN Step(throw(w, "TypeError"), "wait", Undefined)
  ELSE IF w.call.second.kind = "undefined" THEN Step(throw(w, "Error"), "wait", Undefined)
  ELSE IF w.call.second.kind # "function" THEN Step(throw(w, "TypeError"), "wait", Undefined)
  ELSE resolveCached([w EXCEPT !.cache = getDocumentCache(@, w.call.doc)])

\* what s ends in reaches the caller's callback
composeSchemaOutcome(w, out) ==
  IF out.kind = "invalid"
    THEN deliver([w EXCEPT !.call.raw = out.results], "invalid", out.results, NoValue)
  ELSE IF out.kind = "crash" THEN crash(w)
  ELSE IF out.kind = "absent" THEN deliver(w, "none", Undefined, NoValue)
  ELSE deliver(w, "none", Undefined,
               [NoValue EXCEPT !.kind = "schema", !.schema = out.schema])

\* past the structural results the entry t = g(e) carries what E left on it
composeSchemaEntry(w, early, out) ==
  composeSchemaOutcome(IF early THEN w
                       ELSE [w EXCEPT !.cache[CacheIdx(w.cache, w.call.doc)] = out.entry],
                       out)

\* s on the cache as it is when the callback runs
composeSchemaOn(w, s) ==
  composeSchemaEntry(w, formatResults(s).defined,
                     composeSchemaCallback(IF CacheIdx(w.cache, w.call.doc) = 0
                                             THEN NewEntry(w.call.doc)
                                             ELSE w.cache[CacheIdx(w.cache, w.call.doc)],
                                           w.call.ref, FALSE, s))

\* s of D.prototype.composeSchema, applied to the shared cache: t = g(e) is
\* reached past the structural results only
composeSchemaDone(step) ==
  IF step.then # "callback" THEN step.w
  ELSE composeSchemaOn(IF formatResults(step.s).defined THEN step.w
                       ELSE [step.w EXCEPT !.cache = getDocumentCache(@, step.w.call.doc)],
                       step.s)

\* D.prototype.composeSchema up to the callback of P; the model reference
\* arrives as a model id or as a JSON Pointer
composeSchema(w, reference) ==
  IF isUndefined(w.call.doc) THEN Step(throw(w, "Error"), "wait", Undefined)
  ELSE IF ~isPlainObject(w.call.doc) THEN Step(throw(w, "TypeError"), "wait", Undefined)
  ELSE IF reference.form = "undefined" THEN Step(throw(w, "Error"), "wait", Undefined)
  ELSE IF reference.form = "id" /\ w.call.version # "1.2"
    THEN Step(throw(w, "Error"), "wait", Undefined)
  ELSE structurally(
         validateAgainstSchema(
           [w EXCEPT !.call.ref = IF reference.form = "pointer" THEN reference.path
                                  ELSE <<"models", reference.path[Len(reference.path)]>>],
           0, w.call.doc),
         w.call.doc)

\* what runs when JsonRefs calls back with the resolved tree for a unit:
\* the callback of P for the top-level document, the iterator's callback
\* and the test for the end of the map for a sub-document
afterResolution(w, unit) ==
  IF w.call.op = "validate" /\ unit > 0
    THEN mapFinal(unitDone(w, unit, UndefinedDeclaration))
    ELSE Step(w, "callback", Undefined)

\* the callbacks that follow, by operation
settle(step) ==
  IF step.w.call.op = "validate" THEN validateCallback(validateStructurallyCallback(step))
  ELSE IF step.w.call.op = "resolve" THEN resolveCallback(step)
  ELSE composeSchemaDone(step)

\* what runs when JsonRefs calls back with an error for a unit: the callback
\* of the call gets the error, through the map's final callback for a
\* sub-document
afterFailure(w, unit) ==
  IF w.call.op = "validate" /\ unit > 0 THEN unitFailed(w, unit)
  ELSE deliver([w EXCEPT !.call.failed = @ \cup {0}], "failure", Undefined, NoValue)

-----------------------------------------------------------------------------
(* validators.js.  Values are what a request carries: a string (a tuple of *)
(* one-character strings), an array of strings, or nothing.  A validator   *)
(* returns the code of the failure it throws, "" when it returns, and      *)
(* "TypeError" when the exception is not a validation failure.             *)

\* the most characters in a generated string value
MaxChars == 2

\* the most items in a generated array value
MaxItems == 2

Digits == <<"0", "1", "2", "3", "4", "5", "6", "7", "8", "9">>

IsDigit(ch) == Contains(Digits, ch)

DigitValue(ch) == IndexOf(Digits, ch) - 1

RECURSIVE Pow10(_)
Pow10(n) == IF n = 0 THEN 1 ELSE 10 * Pow10(n - 1)

\* numbers are kept as multiples of 1 / Scale, which holds every fraction
\* the strings of the model can spell
Scale == Pow10(MaxChars + 1)

NaN == [nan |-> TRUE, n |-> 0]

Number(n) == [nan |-> FALSE, n |-> n]

\* the length of the longest prefix of str, from index i on, made of digits
RECURSIVE DigitRun(_, _)
DigitRun(str, i) ==
  IF i > Len(str) \/ ~IsDigit(str[i]) THEN 0 ELSE 1 + DigitRun(str, i + 1)

\* the value of the k digits of str from index i on, times scale
RECURSIVE DigitsValue(_, _, _, _)
DigitsValue(str, i, k, scale) ==
  IF k = 0 THEN 0
  ELSE DigitValue(str[i + k - 1]) * scale + DigitsValue(str, i, k - 1, scale * 10)

\* the fraction digits of str after the point at index i, as multiples of 1 / Scale
FractionValue(str, i) ==
  IF i <= Len(str) /\ str[i] = "."
    THEN DigitsValue(str, i + 1, DigitRun(str, i + 1),
                     Scale \div Pow10(DigitRun(str, i + 1)))
    ELSE 0

\* parseInt(e, 10) of a string without sign or white space: the leading
\* digits, whatever follows them
parseInt(str) ==
  IF DigitRun(str, 1) = 0 THEN NaN
  ELSE Number(DigitsValue(str, 1, DigitRun(str, 1), Scale))

\* parseFloat(e) of such a string: the longest leading decimal literal
parseFloat(str) ==
  IF DigitRun(str, 1) = 0
       /\ ~(Len(str) >= 1 /\ str[1] = "." /\ DigitRun(str, 2) > 0)
    THEN NaN
    ELSE Number(DigitsValue(str, 1, DigitRun(str, 1), Scale)
                + FractionValue(str, DigitRun(str, 1) + 1))

\* a value: kind is "undefined", "string" or "array"
NoInput == [kind |-> "undefined", str |-> <<>>, items |-> <<>>]

StringValue(str) == [kind |-> "string", str |-> str, items |-> <<>>]

ArrayValue(items) == [kind |-> "array", str |-> <<>>, items |-> items]

\* e.length, and the elements lodash sees in e: items or characters
Length(e) == IF e.kind = "array" THEN Len(e.items) ELSE Len(e.str)

Elements(e) ==
  IF e.kind = "array" THEN e.items ELSE [i \in 1..Len(e.str) |-> <<e.str[i]>>]

\* no validator has been invoked
NoCall == [fn |-> "none"]

NoResult == [thrown |-> "", message |-> <<>>, errors |-> <<>>]

\* a constraint member that is not declared: a list or a numeric bound, a
\* flag, a count, a pattern
Unset == [set |-> FALSE, v |-> <<>>]

NoFlag == [set |-> FALSE, v |-> FALSE]

NoCount == [set |-> FALSE, v |-> 0]

NoPattern == [set |-> FALSE, v |-> ""]

Set(v) == [set |-> TRUE, v |-> v]

\* String(e): an array is its items joined by commas
RECURSIVE Join(_, _)
Join(items, i) ==
  IF i > Len(items) THEN <<>>
  ELSE items[i] \o (IF i < Len(items) THEN <<",">> ELSE <<>>) \o Join(items, i + 1)

ToStr(e) == IF e.kind = "array" THEN Join(e.items, 1) ELSE e.str

\* the characters of str a decimal literal takes up from the start
LiteralLength(str) ==
  IF DigitRun(str, 1) < Len(str) /\ str[DigitRun(str, 1) + 1] = "."
    THEN DigitRun(str, 1) + 1 + DigitRun(str, DigitRun(str, 1) + 2)
    ELSE DigitRun(str, 1)

\* Number(e), the conversion the % operator applies: the whole string has
\* to be a literal, and the empty string is 0
ToNumber(str) ==
  IF str = <<>> THEN Number(0)
  ELSE IF LiteralLength(str) = Len(str) THEN parseFloat(str)
  ELSE NaN

\* e.match(new RegExp(n)) !== null for the patterns of the model
Matches(str, pattern) ==
  CASE pattern = "^[0-9]+$" -> Len(str) > 0 /\ DigitRun(str, 1) = Len(str)
    [] pattern = "a" -> Contains(str, "a")
    [] OTHER -> FALSE

\* r: the date test, ^([0-9]{4})-([0-9]{2})-([0-9]{2})$ with month 01..12
\* and day 01..31 (two-digit strings compare as their numbers do)
isDate(str) ==
  /\ Len(str) = 10
  /\ \A i \in {1, 2, 3, 4, 6, 7, 9, 10} : IsDigit(str[i])
  /\ str[5] = "-" /\ str[8] = "-"
  /\ DigitsValue(str, 6, 2, 1) \in 1..12
  /\ DigitsValue(str, 9, 2, 1) \in 1..31

\* the time test of o after the "t": hh:mm:ss, an optional fraction behind
\* any one character, then z or an offset
isTime(str) ==
  /\ Len(str) >= 9
  /\ \A i \in {1, 2, 4, 5, 7, 8} : IsDigit(str[i])
  /\ str[3] = ":" /\ str[6] = ":"
  /\ DigitsValue(str, 1, 2, 1) <= 23
  /\ DigitsValue(str, 4, 2, 1) <= 59
  /\ DigitsValue(str, 7, 2, 1) <= 59
  /\ \E k \in {8} \cup {j \in 10..Len(str) : DigitRun(str, 10) >= j - 9} :
       \/ Len(str) = k + 1 /\ str[k + 1] \in {"z", "Z"}
       \/ /\ Len(str) = k + 6
          /\ str[k + 1] \in {"+", "-"} /\ str[k + 4] = ":"
          /\ \A i \in {k + 2, k + 3, k + 5, k + 6} : IsDigit(str[i])

\* o: the date-time test: a date, a "t", a time (what follows a second "t"
\* is not looked at)
isDateTime(str) ==
  /\ Len(str) > 11
  /\ str[11] \in {"t", "T"}
  /\ isDate(SubSeq(str, 1, 10))
  /\ \E m \in 12..Len(str) :
       /\ \A i \in 12..m : str[i] \notin {"t", "T"}
       /\ m = Len(str) \/ str[m + 1] \in {"t", "T"}
       /\ isTime(SubSeq(str, 12, m))

\* the switch of validateTypeAndFormat on one value that is not an array
validType(str, type, format) ==
  CASE type = "boolean" -> str \in {<<"t", "r", "u", "e">>, <<"f", "a", "l", "s", "e">>}
    [] type = "integer" -> ~parseInt(str).nan
    [] type = "number" -> ~parseFloat(str).nan
    [] type = "string" /\ format = "date" -> isDate(str)
    [] type = "string" /\ format = "date-time" -> isDateTime(str)
    [] OTHER -> TRUE

\* validateTypeAndFormat: every element of an array is tested, else the value
validateTypeAndFormat(e, type, format) ==
  IF e.kind = "array"
    THEN IF \E i \in 1..Len(e.items) : ~validType(e.items[i], type, format)
           THEN "INVALID_TYPE" ELSE ""
    ELSE IF validType(e.str, type, format) THEN "" ELSE "INVALID_TYPE"

validateArrayType(schema) ==
  IF schema.type = "array" /\ ~schema.items.set
    THEN "OBJECT_MISSING_REQUIRED_PROPERTY" ELSE ""

validateEnum(e, n) ==
  IF ~n.set \/ e.kind = "undefined" THEN ""
  ELSE IF e.kind = "string" /\ Contains(n.v, e.str) THEN ""
  ELSE "ENUM_MISMATCH"

\* o: the value parsed by its type; undefined compares like NaN
parsedAs(e, type) ==
  IF type = "integer" THEN parseInt(ToStr(e))
  ELSE IF type = "number" THEN parseFloat(ToStr(e))
  ELSE NaN

\* variant: equality fails without the exclusive flag too
validateMaximumInclusive(e, n, type, exclusive) ==
  IF ~n.set \/ parsedAs(e, type).nan \/ parseFloat(n.v).nan THEN ""
  ELSE IF parsedAs(e, type).n >= parseFloat(n.v).n
    THEN (IF exclusive = Set(TRUE) THEN "MAXIMUM_EXCLUSIVE" ELSE "MAXIMUM")
  ELSE ""

validateMaximum(e, n, type, exclusive) ==
  IF ~n.set \/ parsedAs(e, type).nan \/ parseFloat(n.v).nan THEN ""
  ELSE IF \/ exclusive = Set(TRUE) /\ parsedAs(e, type).n >= parseFloat(n.v).n
          \/ parsedAs(e, type).n > parseFloat(n.v).n
    THEN (IF exclusive = Set(TRUE) THEN "MAXIMUM_EXCLUSIVE" ELSE "MAXIMUM")
  ELSE ""

validateMaxItems(e, n) == IF n.set /\ Length(e) > n.v THEN "ARRAY_LENGTH_LONG" ELSE ""

validateMaxLength(e, n) == IF n.set /\ Length(e) > n.v THEN "MAX_LENGTH" ELSE ""

\* i = t.isPlainObject(e) ? Object.keys(e).length : 0, and no value is an object
validateMaxProperties(e, n) == IF n.set /\ 0 > n.v THEN "MAX_PROPERTIES" ELSE ""

validateMinimum(e, n, type, exclusive) ==
  IF ~n.set \/ parsedAs(e, type).nan \/ parseFloat(n.v).nan THEN ""
  ELSE IF \/ exclusive = Set(TRUE) /\ parseFloat(n.v).n >= parsedAs(e, type).n
          \/ parseFloat(n.v).n > parsedAs(e, type).n
    THEN (IF exclusive = Set(TRUE) THEN "MINIMUM_EXCLUSIVE" ELSE "MINIMUM")
  ELSE ""

validateMinItems(e, n) == IF n.set /\ Length(e) < n.v THEN "ARRAY_LENGTH_SHORT" ELSE ""

validateMinLength(e, n) == IF n.set /\ Length(e) < n.v THEN "MIN_LENGTH" ELSE ""

validateMinProperties(e, n) == IF n.set /\ n.v > 0 THEN "MIN_PROPERTIES" ELSE ""

\* e % n === 0, with n a positive whole number
validateMultipleOf(e, n) ==
  IF ~n.set THEN ""
  ELSE IF ~ToNumber(ToStr(e)).nan /\ ToNumber(ToStr(e)).n % (n.v * Scale) = 0 THEN ""
  ELSE "MULTIPLE_OF"

\* an array has no match method
validatePattern(e, n) ==
  IF ~n.set THEN ""
  ELSE IF e.kind = "array" THEN "TypeError"
  ELSE IF Matches(e.str, n.v) THEN "" ELSE "PATTERN"

\* variant: the value is not looked at
validateRequirednessFlagOnly(e, n) == IF n = Set(TRUE) THEN "REQUIRED" ELSE ""

\* variant: the flag is not looked at
validateRequirednessAlways(e, n) == IF e.kind = "undefined" THEN "REQUIRED" ELSE ""

validateRequiredness(e, n) ==
  IF n = Set(TRUE) /\ e.kind = "undefined" THEN "REQUIRED" ELSE ""

\* t.uniq(e).length === e.length; the message is built with e.join, which a
\* string does not have
validateUniqueItems(e, n) ==
  IF ~n.set \/ NoRepeat(Elements(e)) THEN ""
  ELSE IF e.kind = "array" THEN "ARRAY_UNIQUE" ELSE "TypeError"

\* a constraint object: a parameter, an items object or a schema; type and
\* format are "" when not declared
NoItems == [set |-> FALSE, type |-> "", format |-> ""]

Items(type) == [set |-> TRUE, type |-> type, format |-> ""]

Constraint(type) ==
  [type |-> type, format |-> "", items |-> NoItems, enum |-> Unset,
   maximum |-> Unset, exclusiveMaximum |-> NoFlag, maxItems |-> NoCount,
   maxLength |-> NoCount, maxProperties |-> NoCount,
   minimum |-> Unset, exclusiveMinimum |-> NoFlag, minItems |-> NoCount,
   minLength |-> NoCount, minProperties |-> NoCount,
   multipleOf |-> NoCount, pattern |-> NoPattern, uniqueItems |-> NoFlag,
   default |-> NoInput, required |-> NoFlag]

\* the first exception thrown by a run of checks, given what each throws
RECURSIVE firstThrown(_, _)
firstThrown(codes, i) ==
  IF i > Len(codes) THEN ""
  ELSE IF codes[i] # "" THEN codes[i]
  ELSE firstThrown(codes, i + 1)

\* variant: the bounds on the size are tested before the bounds on the value
constraintChecksSizeFirst(a, n) ==
  <<IF n.type = "array"
      THEN validateTypeAndFormat(a, n.items.type,
                                 IF n.items.format # "" THEN n.items.format ELSE n.format)
      ELSE validateTypeAndFormat(a, n.type, n.format),
    validateEnum(a, n.enum),
    validateMaxItems(a, n.maxItems),
    validateMaxLength(a, n.maxLength),
    validateMaxProperties(a, n.maxProperties),
    validateMaximum(a, n.maximum, n.type, n.exclusiveMaximum),
    validateMinItems(a, n.minItems),
    validateMinLength(a, n.minLength),
    validateMinProperties(a, n.minProperties),
    validateMinimum(a, n.minimum, n.type, n.exclusiveMinimum),
    validateMultipleOf(a, n.multipleOf),
    validatePattern(a, n.pattern),
    validateUniqueItems(a, n.uniqueItems)>>

\* the checks of validateSchemaConstraints on a value a that is there, in
\* the order of the calls
constraintChecks(a, n) ==
  <<IF n.type = "array"
      THEN validateTypeAndFormat(a, n.items.type,
                                 IF n.items.format # "" THEN n.items.format ELSE n.format)
      ELSE validateTypeAndFormat(a, n.type, n.format),
    validateEnum(a, n.enum),
    validateMaximum(a, n.maximum, n.type, n.exclusiveMaximum),
    validateMaxItems(a, n.maxItems),
    validateMaxLength(a, n.maxLength),
    validateMaxProperties(a, n.maxProperties),
    validateMinimum(a, n.minimum, n.type, n.exclusiveMinimum),
    validateMinItems(a, n.minItems),
    validateMinLength(a, n.minLength),
    validateMinProperties(a, n.minProperties),
    validateMultipleOf(a, n.multipleOf),
    validatePattern(a, n.pattern),
    validateUniqueItems(a, n.uniqueItems)>>

\* variant: a value that is not there returns before the array check
validateSchemaConstraintsAbsentFirst(n, a) ==
  IF a.kind = "undefined" /\ n.default.kind = "undefined" THEN ""
  ELSE IF validateArrayType(n) # "" THEN validateArrayType(n)
  ELSE firstThrown(constraintChecks(IF a.kind = "undefined" THEN n.default ELSE a, n), 1)

\* validateSchemaConstraints(version, n, path, a): the array check, the
\* default in place of a value that is not there, then the checks; the
\* constraint has no schema member to descend into
validateSchemaConstraints(n, a) ==
  IF validateArrayType(n) # "" THEN validateArrayType(n)
  ELSE IF a.kind = "undefined" /\ n.default.kind = "undefined" THEN ""
  ELSE firstThrown(constraintChecks(IF a.kind = "undefined" THEN n.default ELSE a, n), 1)

\* t.union(n, e): the members of both in first-seen order; a list that is
\* not declared adds nothing
RECURSIVE Uniq(_, _, _)
Uniq(s, i, seen) ==
  IF i > Len(s) THEN seen
  ELSE Uniq(s, i + 1, IF Contains(seen, s[i]) THEN seen ELSE Append(seen, s[i]))

union(n, e) ==
  Uniq((IF n.set THEN n.v ELSE <<>>) \o (IF e.set THEN e.v ELSE <<>>), 1, <<>>)

\* a.split(";")[0]
RECURSIVE BeforeSemicolon(_, _)
BeforeSemicolon(str, i) ==
  IF i > Len(str) \/ str[i] = ";" THEN <<>>
  ELSE <<str[i]>> \o BeforeSemicolon(str, i + 1)

\* application/octet-stream
OctetStream == <<"o">>

\* i.headers["content-type"] || "application/octet-stream", up to the first ";"
contentType(header) ==
  BeforeSemicolon(IF header.set /\ header.v # <<>> THEN header.v ELSE OctetStream, 1)

\* variant: the method is not looked at
validateContentTypeAnyMethod(e, n, method, header) ==
  IF union(n, e) # <<>> /\ ~Contains(union(n, e), contentType(header))
    THEN [thrown |-> "Error", message |-> <<contentType(header), union(n, e)>>,
          errors |-> <<>>]
    ELSE NoResult

\* variant: an empty union accepts nothing
validateContentTypeEmptyUnion(e, n, method, header) ==
  IF method \in {"POST", "PUT"} /\ ~Contains(union(n, e), contentType(header))
    THEN [thrown |-> "Error", message |-> <<contentType(header), union(n, e)>>,
          errors |-> <<>>]
    ELSE NoResult

\* validateContentType(e, n, i): e the global consumes, n the operation's,
\* i the request; the message names the type and the union
validateContentType(e, n, method, header) ==
  IF /\ union(n, e) # <<>>
     /\ method \in {"POST", "PUT"}
     /\ ~Contains(union(n, e), contentType(header))
    THEN [thrown |-> "Error", message |-> <<contentType(header), union(n, e)>>,
          errors |-> <<>>]
    ELSE NoResult

-----------------------------------------------------------------------------
(* Path templates and validateParameters.  A template is the sequence of   *)
(* its segments between the slashes, a segment a sequence of pieces: runs  *)
(* of literal text and {name} placeholders.                                *)

Literal(text) == [kind |-> "lit", text |-> text]

Placeholder(name) == [kind |-> "arg", text |-> name]

\* one segment in w: "{" === e.charAt(0) && (n.push(e.substring(1).split("}")[0]),
\* e = "{" + (n.length - 1) + "}")
RECURSIVE normalizeSegments(_, _, _)
normalizeSegments(segments, i, out) ==
  IF i > Len(segments) THEN out
  ELSE normalizeSegments(
         segments, i + 1,
         IF segments[i] # <<>> /\ segments[i][1].kind = "arg"
           THEN [path |-> Append(out.path, <<[kind |-> "pos", text |-> IdxStr(Len(out.args))]>>),
                 args |-> Append(out.args, segments[i][1].text)]
           ELSE [out EXCEPT !.path = Append(@, segments[i])])

\* w (normalizePath): the path with its placeholders numbered, and their names
normalizePath(template) == normalizeSegments(template, 1, [path |-> <<>>, args |-> <<>>])

\* a parameter: its name, its location (paramType / in), the constraint it
\* declares, and skipErrors, set on the copies an operation inherits
Parameter(name, in, constraint) ==
  [name |-> name, in |-> in, constraint |-> constraint, skipErrors |-> FALSE]

\* b: validateSchemaConstraints on the declaration itself, without a value;
\* what it throws becomes an error unless skipErrors is set
constraintFinding(acc, o, u) ==
  IF validateSchemaConstraints(o.constraint, NoInput) # "" /\ ~o.skipErrors
    THEN AddError(acc, validateSchemaConstraints(o.constraint, NoInput), <<>>, u)
    ELSE acc

\* ("path" === o.paramType || "path" === o.in) && (-1 === i.args.indexOf(o.name) && d(...))
unresolvablePathParameter(acc, args, o, u) ==
  IF o.in = "path" /\ ~Contains(args, o.name)
    THEN AddError(acc, "UNRESOLVABLE_API_PATH_PARAMETER", <<o.name>>, u \o <<"name">>)
    ELSE acc

\* the reduce of R over the parameters, from index c on (one-based)
RECURSIVE parameters(_, _, _, _, _)
parameters(acc, args, o, t, c) ==
  IF c > Len(o) THEN acc
  ELSE parameters(
         constraintFinding(
           unresolvablePathParameter(
             validateNoExist(acc, [k \in 1..(c - 1) |-> o[k].name], o[c].name, "PARAMETER",
                             t \o <<"parameters", IdxStr(c - 1), "name">>, FALSE),
             args, o[c], t \o <<"parameters", IdxStr(c - 1)>>),
           o[c], t \o <<"parameters", IdxStr(c - 1)>>),
         args, o, t, c + 1)

\* r.each(r.difference(i.args, a), ...): a holds the names of the path parameters
RECURSIVE missingPathParameters(_, _, _, _, _)
missingPathParameters(acc, args, a, path, k) ==
  IF k > Len(args) THEN acc
  ELSE missingPathParameters(
         IF ~Contains(a, args[k])
           THEN AddError(acc, "MISSING_API_PATH_PARAMETER", <<args[k]>>, path)
           ELSE acc,
         args, a, path, k + 1)

PathParameterNames(o) ==
  [k \in 1..Len(SelectSeq(o, LAMBDA x : x.in = "path")) |->
     SelectSeq(o, LAMBDA x : x.in = "path")[k].name]

\* R (validateParameters) for the parameters o declared at path t against
\* the normalized path i
validateParameters(version, i, o, t, acc) ==
  missingPathParameters(parameters(acc, i.args, o, t, 1), i.args, PathParameterNames(o),
                        IF version = "1.2" THEN SubSeq(t, 1, 2) \o <<"path">> ELSE t, 1)

\* U: the parameters of an operation, then those of the path it does not
\* override by name and location, cloned with skipErrors set
operationParameters(own, inherited) ==
  own \o [k \in 1..Len(SelectSeq(inherited,
                                 LAMBDA e : \A j \in 1..Len(own) :
                                              <<own[j].name, own[j].in>> # <<e.name, e.in>>)) |->
            [SelectSeq(inherited,
                       LAMBDA e : \A j \in 1..Len(own) :
                                    <<own[j].name, own[j].in>> # <<e.name, e.in>>)[k]
               EXCEPT !.skipErrors = TRUE]]

\* U: r.each(i, ...) over the operations of one path item
RECURSIVE pathOperations(_, _, _, _, _)
pathOperations(acc, template, item, c, k) ==
  IF k > Len(item.operations) THEN acc
  ELSE pathOperations(
         validateParameters("2.0", c,
                            operationParameters(item.operations[k].parameters, item.parameters),
                            <<"paths", template, item.operations[k].method>>, acc),
         template, item, c, k + 1)

\* U: the body of the reduce over o.resolved.paths for one path, as far as
\* its parameters go: R on the path's own parameters, then on every operation
pathItem(acc, template, item) ==
  pathOperations(validateParameters("2.0", normalizePath(template), item.parameters,
                                    <<"paths", template>>, acc),
                 template, item, normalizePath(template), 1)

\* U: the reduce over o.resolved.paths: a path whose normalized form was
\* met before is a DUPLICATE_API_PATH; n.concat(c.path) after its checks
RECURSIVE apiPaths(_, _, _, _)
apiPaths(acc, n, paths, k) ==
  IF k > Len(paths) THEN acc
  ELSE apiPaths(
         pathItem(IF Contains(n, normalizePath(paths[k].template).path)
                    THEN AddError(acc, "DUPLICATE_API_PATH", <<paths[k].template>>,
                                  <<"paths", paths[k].template>>)
                    ELSE acc,
                  paths[k].template, paths[k].item),
         Append(n, normalizePath(paths[k].template).path), paths, k + 1)

-----------------------------------------------------------------------------
(* Unit level: processDocument and the composeSchema callback applied to   *)
(* the cache entry of one resolved document, drawn from every inheritance  *)
(* graph over ModelNames within the bounds.                                *)

ModelNames == <<"A", "B", "C">>

\* the most subTypes (1.2) or allOf members (2.0) in a generated document,
\* all its models together
MaxLinks == 3

\* the most processDocument runs on one cache entry
MaxRuns == 2

LinkChoices == {l \in SeqsUpTo(Range(ModelNames), MaxLinks) : NoRepeat(l)}

RECURSIVE TotalLen(_, _)
TotalLen(f, k) == IF k = 0 THEN 0 ELSE Len(f[k]) + TotalLen(f, k - 1)

\* a model declares the shared property "p" or one named after itself; the
\* last model always declares "p"
PropertyChoices(id) ==
  IF id = ModelNames[Len(ModelNames)] THEN {<<"p">>} ELSE {<<"p">>, <<id>>}

AllOfRefs(links) == [i \in 1..Len(links) |-> [kind |-> "ref", target |-> links[i]]]

GeneratedLinks ==
  {links \in [1..Len(ModelNames) -> LinkChoices] : TotalLen(links, Len(ModelNames)) <= MaxLinks}

GeneratedProperties ==
  {f \in [1..Len(ModelNames) -> {<<"p">>} \cup {<<ModelNames[k]>> : k \in 1..Len(ModelNames)}] :
     \A k \in 1..Len(ModelNames) : f[k] \in PropertyChoices(ModelNames[k])}

GeneratedModels(version) ==
  {[k \in 1..Len(ModelNames) |->
      Model(ModelNames[k],
            IF version = "1.2" THEN links[k] ELSE <<>>,
            IF version = "1.2" THEN <<>> ELSE AllOfRefs(links[k]),
            props[k])] :
     links \in GeneratedLinks, props \in GeneratedProperties}

GeneratedDocuments ==
  {Document("1.2", "ad", "/r", <<>>, ms, <<>>, <<>>, FALSE) : ms \in GeneratedModels("1.2")}
  \cup
  {Document("2.0", "so", "", <<>>, ms, <<>>, <<>>, FALSE) : ms \in GeneratedModels("2.0")}

NoOutcome == [kind |-> "none", results |-> Undefined, schema |-> NoSchema, ref |-> <<>>]

NoReport == [ran |-> FALSE, crashed |-> FALSE, errors |-> <<>>, warnings |-> <<>>]

MInit ==
  /\ cache = <<>>
  /\ calls = <<>>
  /\ libs = <<>>
  /\ \E doc \in GeneratedDocuments :
       mentry = ResolvedEntry(NewEntry(doc), ResolveTree(doc))
  /\ mreport = NoReport
  /\ mout = NoOutcome
  /\ mruns = 0
  /\ vcall = NoCall
  /\ vresult = NoResult

\* E(entry, results) with a fresh results object, as validateSemantically calls it
MProcess ==
  /\ mruns < MaxRuns
  /\ \E run \in {processDocument(mentry, Acc(mentry.definitions, <<>>, <<>>))} :
       /\ mentry' = [mentry EXCEPT !.definitions = run.defs]
       /\ mreport' = [ran |-> TRUE, crashed |-> run.crashed,
                      errors |-> run.errors, warnings |-> run.warnings]
  /\ mout' = NoOutcome
  /\ mruns' = mruns + 1
  /\ UNCHANGED <<cache, calls, libs, vcall, vresult>>

\* the composeSchema callback after a clean structural validation
MCompose(id) ==
  /\ mruns < MaxRuns
  /\ \E res \in {composeSchemaCallback(mentry, ModelPtr(mentry.swaggerVersion, id),
                                        FALSE, Undefined)} :
       /\ mentry' = res.entry
       /\ mout' = [kind |-> res.kind, results |-> res.results, schema |-> res.schema,
                   ref |-> ModelPtr(mentry.swaggerVersion, id)]
  /\ mreport' = NoReport
  /\ mruns' = mruns + 1
  /\ UNCHANGED <<cache, calls, libs, vcall, vresult>>

MNext ==
  \/ MProcess
  \/ \E id \in Range(ModelNames) \cup {"Missing"} : MCompose(id)

SpecModels == MInit /\ [][MNext]_vars

-----------------------------------------------------------------------------
(* API level: callers of one Specification object sharing its document     *)
(* cache.  Each caller makes one call; the documents come from a catalog.  *)

Callers == {"c1", "c2"}

\* the most API declarations handed to one validate
MaxSubDocs == 2

ResourceListing == Document("1.2", "rl", "", <<"/a", "/b">>, <<>>, <<>>, <<>>, FALSE)

\* clean; holds a remote reference, so its resolution may fail
AdA == Document("1.2", "ad", "/a", <<>>, <<>>, <<>>, <<>>, TRUE)

\* clean
AdB == Document("1.2", "ad", "/b", <<>>, <<>>, <<>>, <<>>, FALSE)

\* A and B name each other as subtype; remote as AdA
AdCyc ==
  Document("1.2", "ad", "/b",  <<>>,
           <<Model("A", <<"B">>, <<>>, <<"p">>), Model("B", <<"A">>, <<>>, <<"q">>)>>,
           <<>>, <<>>, TRUE)

\* rejected by the JSON Schema
AdBad ==
  Document("1.2", "ad", "/a", <<>>, <<>>, <<>>, <<"OBJECT_MISSING_REQUIRED_PROPERTY">>, FALSE)

\* one model, and an authorization that lists a scope twice
AdWarn ==
  Document("1.2", "ad", "/a", <<>>, <<Model("A", <<>>, <<>>, <<"p">>)>>,
           <<[name |-> "oauth2", scopes |-> <<"s", "s">>]>>, <<>>, FALSE)

\* one model
AdModel ==
  Document("1.2", "ad", "/b", <<>>, <<Model("A", <<>>, <<>>, <<"p">>)>>, <<>>, <<>>, FALSE)

\* one model, which names a subtype the document does not define
AdDangling ==
  Document("1.2", "ad", "/a", <<>>, <<Model("A", <<"Missing">>, <<>>, <<"p">>)>>,
           <<>>, <<>>, FALSE)

SoClean == Document("2.0", "so", "", <<>>, <<>>, <<>>, <<>>, TRUE)

SoChain ==
  Document("2.0", "so", "", <<>>,
           <<Model("A", <<>>, <<>>, <<"p">>), Model("B", <<>>, AllOfRefs(<<"A">>), <<"q">>)>>,
           <<>>, <<>>, FALSE)

\* rejected by the JSON Schema; one model
SoBad ==
  Document("2.0", "so", "", <<>>, <<Model("A", <<>>, <<>>, <<"p">>)>>, <<>>,
           <<"OBJECT_MISSING_REQUIRED_PROPERTY">>, FALSE)

\* SoChain as resolved: the allOf member of B is inline
SoInline == ResolveTree(SoChain)

AbsentDocument == [NoDocument EXCEPT !.kind = "absent"]

ScalarDocument == [NoDocument EXCEPT !.kind = "scalar"]

ApiDeclarations == <<AdA, AdB, AdCyc, AdBad, AdWarn, AdModel>>

Documents ==
  {ResourceListing, SoClean, SoChain, SoInline, SoBad, AdDangling, AbsentDocument,
   ScalarDocument}
  \cup Range(ApiDeclarations)

Array(items) == [shape |-> "array", items |-> items]

ScalarArgument == [shape |-> "scalar", items |-> <<>>]

ValidateInput(version, doc, subs) == [version |-> version, doc |-> doc, subs |-> subs]

\* validate with arguments that fail its checks
BadValidateInputs ==
  {ValidateInput(v, d, Array(<<>>)) : v \in {"1.2", "2.0"}, d \in {AbsentDocument, ScalarDocument}}
  \cup {ValidateInput("1.2", ResourceListing, a) : a \in {NoArray, ScalarArgument}}

\* the validate calls of a single caller: every array of API declarations
AllValidateInputs ==
  {ValidateInput("1.2", ResourceListing, Array(items)) :
     items \in SeqsUpTo(Range(ApiDeclarations), MaxSubDocs)}
  \cup {ValidateInput("2.0", d, NoArray) : d \in {SoClean, SoChain, SoBad}}
  \cup BadValidateInputs

\* the validate calls made next to another caller
SharedValidateInputs ==
  {ValidateInput("1.2", ResourceListing, Array(items)) :
     items \in {<<>>, <<AdA>>, <<AdA, AdB>>, <<AdB, AdCyc>>, <<AdDangling>>}}
  \cup {ValidateInput("2.0", d, NoArray) : d \in {SoClean, SoChain, SoInline}}
  \cup BadValidateInputs

ResolveDocuments == {ResourceListing, AdA, AdBad, AdModel, SoChain, AbsentDocument}

\* the second argument of resolve: the callback (two arguments), or the
\* pointer or undefined in front of the callback (three arguments)
SecondArguments ==
  {[kind |-> "function", path |-> <<>>], [kind |-> "pointer", path |-> <<"models", "A">>],
   NoArgument}

ComposeDocuments == {AdA, AdCyc, AdBad, AdWarn, AdModel, SoChain, ScalarDocument}

References(version) ==
  {[form |-> "id", path |-> <<"A">>], [form |-> "pointer", path |-> ModelPtr(version, "A")],
   [form |-> "pointer", path |-> ModelPtr(version, "Missing")]}

World(c) == [cache |-> cache, libs |-> libs, call |-> calls[c]]

Commit(c, w) ==
  /\ cache' = w.cache
  /\ libs' = w.libs
  /\ calls' = [calls EXCEPT ![c] = w.call]
  /\ UNCHANGED <<mentry, mreport, mout, mruns, vcall, vresult>>

\* a call that has come to its end: settled, with nothing left in flight
Finished(c) ==
  calls[c].pc \in {"returned", "threw", "crashed"} /\ calls[c].pending = {}

Begin(c, op, version, doc) ==
  [World(c) EXCEPT !.call = [IdleCall EXCEPT !.op = op, !.version = version, !.doc = doc,
                                             !.pc = "running",
                                             !.after = {o \in Callers : Finished(o)}]]

UnitDocument(call, unit) == IF unit = 0 THEN call.doc ELSE call.subs.items[unit]

Init ==
  /\ cache = <<>>
  /\ libs = [d \in Documents |-> [zschema |-> 0, jsonrefs |-> 0]]
  /\ calls = [c \in Callers |-> IdleCall]
  /\ mentry = NewEntry(NoDocument)
  /\ mreport = NoReport
  /\ mout = NoOutcome
  /\ mruns = 0
  /\ vcall = NoCall
  /\ vresult = NoResult

Validate(c, inputs) ==
  /\ calls[c].pc = "idle"
  /\ \E in \in inputs :
       Commit(c, validateCallback(validateStructurallyCallback(
                   validate([Begin(c, "validate", in.version, in.doc)
                               EXCEPT !.call.subs = in.subs]))))

Resolve(c) ==
  /\ calls[c].pc = "idle"
  /\ \E doc \in ResolveDocuments, second \in SecondArguments :
       Commit(c, resolveCallback(resolve([Begin(c, "resolve", doc.swaggerVersion, doc)
                                            EXCEPT !.call.second = second])))

ComposeSchema(c) ==
  /\ calls[c].pc = "idle"
  /\ \E doc \in ComposeDocuments :
       \E reference \in References(doc.swaggerVersion) :
         Commit(c, composeSchemaDone(
                     composeSchema(Begin(c, "composeSchema", doc.swaggerVersion, doc),
                                   reference)))

\* JsonRefs.resolveRefs calls back with the resolved tree
ResolveDone(c, unit) ==
  /\ unit \in calls[c].pending
  /\ Commit(c, settle(afterResolution(
                        [World(c) EXCEPT
                           !.call.pending = @ \ {unit},
                           !.cache = storeResolved(@, UnitDocument(calls[c], unit))],
                        unit)))

\* JsonRefs.resolveRefs calls back with an error: a remote reference could
\* not be fetched
ResolveFailed(c, unit) ==
  /\ unit \in calls[c].pending
  /\ UnitDocument(calls[c], unit).remote
  /\ Commit(c, afterFailure([World(c) EXCEPT !.call.pending = @ \ {unit}], unit))

Units == 0..MaxSubDocs

Next ==
  \/ \E c \in Callers : Validate(c, SharedValidateInputs)
  \/ \E c \in Callers : Resolve(c)
  \/ \E c \in Callers : ComposeSchema(c)
  \/ \E c \in Callers, unit \in Units : ResolveDone(c, unit)
  \/ \E c \in Callers, unit \in Units : ResolveFailed(c, unit)

Spec == Init /\ [][Next]_vars

\* one caller, one validate, every array of API declarations
NextValidate ==
  \/ Validate("c1", AllValidateInputs)
  \/ \E unit \in Units : ResolveDone("c1", unit)
  \/ \E unit \in Units : ResolveFailed("c1", unit)

SpecValidate == Init /\ [][NextValidate]_vars

-----------------------------------------------------------------------------
(* Validator level: one call of a validator of validators.js, or of the    *)
(* parameter checks of validateSemantically, on generated arguments.       *)

\* the characters of generated strings, and the strings up to MaxChars
Chars == {"1", "2", ".", "a"}

Strings == SeqsUpTo(Chars, MaxChars)

\* array values: up to MaxItems strings of one character
ItemStrings == {<<"1">>, <<"2">>, <<"a">>}

Arrays == {ArrayValue(items) : items \in SeqsUpTo(ItemStrings, MaxItems)}

Values == {StringValue(str) : str \in Strings} \cup Arrays \cup {NoInput}

Flags == {NoFlag, Set(TRUE), Set(FALSE)}

\* numeric bounds as documents spell them: numbers and string-encoded numbers
Bounds == {Set(<<"1">>), Set(<<"2">>), Set(<<"1", ".", "0">>), Set(<<"1", ".", "5">>)}

\* media types: application/json, application/xml and the default
Json == <<"j">>

Xml == <<"x">>

ConsumesChoices == {Unset, Set(<<>>), Set(<<Json>>), Set(<<Json, Xml>>), Set(<<Xml>>)}

\* the content-type header of a request: missing, empty, bare, with a charset
HeaderChoices ==
  {Unset, Set(<<>>), Set(Json), Set(Xml), Set(OctetStream),
   Set(Json \o <<";", "c">>), Set(<<"t">> \o <<";", "c">>)}

Methods == {"GET", "POST", "PUT", "DELETE"}

\* the members a generated constraint declares on top of its type
Settings ==
  <<[member |-> "enum", v |-> Set(<<<<"1">>, <<"a">>>>)],
    [member |-> "maximum", v |-> Set(<<"1">>)],
    [member |-> "exclusiveMaximum", v |-> Set(TRUE)],
    [member |-> "maxItems", v |-> Set(1)],
    [member |-> "maxLength", v |-> Set(1)],
    [member |-> "maxProperties", v |-> Set(0)],
    [member |-> "minimum", v |-> Set(<<"2">>)],
    [member |-> "exclusiveMinimum", v |-> Set(TRUE)],
    [member |-> "minItems", v |-> Set(2)],
    [member |-> "minLength", v |-> Set(2)],
    [member |-> "minProperties", v |-> Set(1)],
    [member |-> "multipleOf", v |-> Set(2)],
    [member |-> "pattern", v |-> Set("a")],
    [member |-> "uniqueItems", v |-> Set(TRUE)],
    [member |-> "items", v |-> Items("integer")],
    [member |-> "default", v |-> StringValue(<<"2">>)]>>

\* the constraint n with one more member declared
Declare(n, s) ==
  CASE s.member = "enum" -> [n EXCEPT !.enum = s.v]
    [] s.member = "maximum" -> [n EXCEPT !.maximum = s.v]
    [] s.member = "exclusiveMaximum" -> [n EXCEPT !.exclusiveMaximum = s.v]
    [] s.member = "maxItems" -> [n EXCEPT !.maxItems = s.v]
    [] s.member = "maxLength" -> [n EXCEPT !.maxLength = s.v]
    [] s.member = "maxProperties" -> [n EXCEPT !.maxProperties = s.v]
    [] s.member = "minimum" -> [n EXCEPT !.minimum = s.v]
    [] s.member = "exclusiveMinimum" -> [n EXCEPT !.exclusiveMinimum = s.v]
    [] s.member = "minItems" -> [n EXCEPT !.minItems = s.v]
    [] s.member = "minLength" -> [n EXCEPT !.minLength = s.v]
    [] s.member = "minProperties" -> [n EXCEPT !.minProperties = s.v]
    [] s.member = "multipleOf" -> [n EXCEPT !.multipleOf = s.v]
    [] s.member = "pattern" -> [n EXCEPT !.pattern = s.v]
    [] s.member = "uniqueItems" -> [n EXCEPT !.uniqueItems = s.v]
    [] s.member = "items" -> [n EXCEPT !.items = s.v]
    [] s.member = "default" -> [n EXCEPT !.default = s.v]

Types == {"integer", "number", "string", "array"}

Constraints ==
  {Declare(Declare(Constraint(type), Settings[i]), Settings[j]) :
     i \in DOMAIN Settings, j \in DOMAIN Settings, type \in Types}

VInit ==
  /\ cache = <<>>
  /\ calls = <<>>
  /\ libs = <<>>
  /\ mentry = NewEntry(NoDocument)
  /\ mreport = NoReport
  /\ mout = NoOutcome
  /\ mruns = 0
  /\ vcall = NoCall
  /\ vresult = NoResult

\* what a validator threw, as a result
Thrown(code) == [thrown |-> code, message |-> <<>>, errors |-> <<>>]

ValidateContentType ==
  /\ vcall.fn = "none"
  /\ \E global \in ConsumesChoices, operation \in ConsumesChoices,
        method \in Methods, header \in HeaderChoices :
       /\ vcall' = [fn |-> "validateContentType", global |-> global,
                    operation |-> operation, method |-> method, header |-> header]
       /\ vresult' = validateContentType(global, operation, method, header)
  /\ UNCHANGED <<cache, calls, libs, mentry, mreport, mout, mruns>>

ValidateSchemaConstraints ==
  /\ vcall.fn = "none"
  /\ \E n \in Constraints, a \in Values :
       /\ vcall' = [fn |-> "validateSchemaConstraints", schema |-> n, value |-> a]
       /\ vresult' = Thrown(validateSchemaConstraints(n, a))
  /\ UNCHANGED <<cache, calls, libs, mentry, mreport, mout, mruns>>

ValidateTypeAndFormat ==
  /\ vcall.fn = "none"
  /\ \E e \in Values \ {NoInput}, type \in {"integer", "number", "string", "boolean"} :
       /\ vcall' = [fn |-> "validateTypeAndFormat", value |-> e, type |-> type]
       /\ vresult' = Thrown(validateTypeAndFormat(e, type, ""))
  /\ UNCHANGED <<cache, calls, libs, mentry, mreport, mout, mruns>>

ValidateMaximum ==
  /\ vcall.fn = "none"
  /\ \E str \in Strings, n \in Bounds \cup {Unset}, type \in {"integer", "number"},
        exclusive \in Flags :
       /\ vcall' = [fn |-> "validateMaximum", value |-> StringValue(str), bound |-> n,
                    type |-> type, exclusive |-> exclusive]
       /\ vresult' = Thrown(validateMaximum(StringValue(str), n, type, exclusive))
  /\ UNCHANGED <<cache, calls, libs, mentry, mreport, mout, mruns>>

ValidateMinimum ==
  /\ vcall.fn = "none"
  /\ \E str \in Strings, n \in Bounds \cup {Unset}, type \in {"integer", "number"},
        exclusive \in Flags :
       /\ vcall' = [fn |-> "validateMinimum", value |-> StringValue(str), bound |-> n,
                    type |-> type, exclusive |-> exclusive]
       /\ vresult' = Thrown(validateMinimum(StringValue(str), n, type, exclusive))
  /\ UNCHANGED <<cache, calls, libs, mentry, mreport, mout, mruns>>

ValidateRequiredness ==
  /\ vcall.fn = "none"
  /\ \E e \in Values, n \in Flags :
       /\ vcall' = [fn |-> "validateRequiredness", value |-> e, required |-> n]
       /\ vresult' = Thrown(validateRequiredness(e, n))
  /\ UNCHANGED <<cache, calls, libs, mentry, mreport, mout, mruns>>

ValidateUniqueItems ==
  /\ vcall.fn = "none"
  /\ \E e \in Arrays, n \in Flags :
       /\ vcall' = [fn |-> "validateUniqueItems", value |-> e, uniqueItems |-> n]
       /\ vresult' = Thrown(validateUniqueItems(e, n))
  /\ UNCHANGED <<cache, calls, libs, mentry, mreport, mout, mruns>>

\* the middleware's parameter value: what the request supplies, or the
\* declared default when it supplies nothing
parameterValue(supplied, default) ==
  IF supplied.kind = "undefined" THEN default ELSE supplied

\* the middleware's requiredness check of one parameter of a request
RequestParameter ==
  /\ vcall.fn = "none"
  /\ \E supplied \in Values, default \in {NoInput, StringValue(<<"1">>)}, required \in Flags :
       /\ vcall' = [fn |-> "parameter", supplied |-> supplied, default |-> default,
                    required |-> required]
       /\ vresult' = Thrown(validateRequiredness(parameterValue(supplied, default), required))
  /\ UNCHANGED <<cache, calls, libs, mentry, mreport, mout, mruns>>

\* the most segments of a generated path template
MaxSegments == 2

\* the most parameters a generated operation declares itself
MaxParameters == 2

\* segments: a literal, a placeholder, a placeholder behind a literal prefix
SegmentChoices ==
  {<<Literal("pet")>>, <<Placeholder("id")>>, <<Placeholder("f")>>,
   <<Literal("pet"), Placeholder("f")>>}

Templates == SeqsUpTo(SegmentChoices, MaxSegments) \ {<<>>}

ParameterChoices ==
  {Parameter(name, in, Constraint("string")) : name \in {"id", "f"}, in \in {"path", "query"}}

\* a path item: its own parameters and one operation
PathItems ==
  {[parameters |-> inherited, operations |-> <<[method |-> "get", parameters |-> own]>>] :
     inherited \in {<<>>} \cup {<<o>> : o \in ParameterChoices},
     own \in SeqsUpTo(ParameterChoices, MaxParameters)}

\* the parameter checks of validateSemantically (2.0) on one path
ValidatePath ==
  /\ vcall.fn = "none"
  /\ \E template \in Templates, item \in PathItems :
       /\ vcall' = [fn |-> "validateParameters", template |-> template, item |-> item]
       /\ vresult' = [thrown |-> "", message |-> <<>>,
                      errors |-> pathItem(Acc(<<>>, <<>>, <<>>), template, item).errors]
  /\ UNCHANGED <<cache, calls, libs, mentry, mreport, mout, mruns>>

\* segments of the paths of a document: also a placeholder with a suffix
PathSegmentChoices ==
  SegmentChoices \cup {<<Literal("pet"), Placeholder("id")>>,
                       <<Placeholder("id"), Literal("x")>>}

\* a path without parameters and operations
BarePath(template) == [template |-> template, item |-> [parameters |-> <<>>, operations |-> <<>>]]

\* the path checks of validateSemantically (2.0) on a document with two
\* paths, which are keys of one object and so differ
ValidatePaths ==
  /\ vcall.fn = "none"
  /\ \E first \in SeqsUpTo(PathSegmentChoices, MaxSegments) \ {<<>>},
        second \in SeqsUpTo(PathSegmentChoices, MaxSegments) \ {<<>>} :
       /\ first # second
       /\ vcall' = [fn |-> "validatePaths", paths |-> <<first, second>>]
       /\ vresult' = [thrown |-> "", message |-> <<>>,
                      errors |-> apiPaths(Acc(<<>>, <<>>, <<>>), <<>>,
                                          <<BarePath(first), BarePath(second)>>, 1).errors]
  /\ UNCHANGED <<cache, calls, libs, mentry, mreport, mout, mruns>>

VNext ==
  \/ ValidateContentType
  \/ ValidateSchemaConstraints
  \/ ValidateTypeAndFormat
  \/ ValidateMaximum
  \/ ValidateMinimum
  \/ ValidateRequiredness
  \/ ValidateUniqueItems
  \/ RequestParameter
  \/ ValidatePath
  \/ ValidatePaths

SpecValidators == VInit /\ [][VNext]_vars

-----------------------------------------------------------------------------
(* Properties of the unit level (SpecModels).                              *)

\* the inheritance links of a document, per model: subTypes in 1.2, the
\* targets of allOf in 2.0
Links(doc) ==
  [k \in 1..Len(doc.models) |->
     IF doc.swaggerVersion = "1.2" THEN doc.models[k].subTypes
     ELSE [i \in 1..Len(doc.models[k].allOf) |-> doc.models[k].allOf[i].target]]

\* the property names a composed schema holds, and those of a model and its lineage
ComposedNames(schema) == {schema.occurrences[i].name : i \in 1..Len(schema.occurrences)}

LineageNames(entry, n) ==
  LET d == entry.definitions[DefIdx(entry.definitions, n)]
  IN Range(NodeProperties(entry.resolved, n))
     \cup UNION {Range(NodeProperties(entry.resolved, d.lineage[k])) : k \in 1..Len(d.lineage)}

\* no two models among n and its lineage declare the same property
DeclaredOnce(entry, n) ==
  LET d == entry.definitions[DefIdx(entry.definitions, n)]
      ms == {n} \cup Range(d.lineage)
  IN \A a, b \in ms :
       a # b => Range(NodeProperties(entry.resolved, a))
                  \cap Range(NodeProperties(entry.resolved, b)) = {}

\* n and the models of its lineage have at most one parent each
SingleInheritance(entry, n) ==
  LET d == entry.definitions[DefIdx(entry.definitions, n)]
  IN \A a \in {n} \cup Range(d.lineage) :
       Len(entry.definitions[DefIdx(entry.definitions, a)].parents) <= 1

\* C9: the schema composed for a model of a document without findings, in
\* which every property is declared by one model only and every model has at
\* most one parent, holds exactly the properties of the model and of every
\* model in its lineage, and no property occurs twice in it.
C9_ComposedPropertySet ==
  (/\ mout.kind = "schema"
   /\ DeclaredOnce(mentry, mout.ref)
   /\ SingleInheritance(mentry, mout.ref)) =>
    /\ ComposedNames(mout.schema) = LineageNames(mentry, mout.ref)
    /\ \A i, j \in 1..Len(mout.schema.occurrences) :
         i # j => mout.schema.occurrences[i].name # mout.schema.occurrences[j].name

\* A's parent is B and B's parent is A, and these are the only links
CycleAB(doc) == Links(doc) = <<<<"B">>, <<"A">>, <<>>>>

CyclicalFindings(version, x) ==
  {i \in 1..Len(mreport.errors) :
     /\ mreport.errors[i].code \in {"CYCLICAL_MODEL_INHERITANCE", "CYCLICAL_DEFINITION_INHERITANCE"}
     /\ mreport.errors[i].path
          = ModelPtr(version, x) \o <<IF version = "1.2" THEN "subTypes" ELSE "allOf">>}

\* C10: when A's parent is B and B's parent is A (the only links of the
\* document), processDocument terminates, both models are marked cyclical, and
\* the report holds for each of them exactly one CYCLICAL_*_INHERITANCE error,
\* whose message runs through the whole cycle: X -> Y -> X.
C10_TwoModelCycle ==
  (mreport.ran /\ CycleAB(mentry.original)) =>
    /\ ~mreport.crashed
    /\ \A x \in {"A", "B"} :
         LET v == mentry.swaggerVersion
             y == IF x = "A" THEN "B" ELSE "A"
             name(id) == getDisplayId(v, ModelPtr(v, id))
         IN /\ mentry.definitions[DefIdx(mentry.definitions, ModelPtr(v, x))].cyclical
            /\ Cardinality(CyclicalFindings(v, x)) = 1
            /\ \A i \in CyclicalFindings(v, x) :
                 mreport.errors[i].message = <<name(x), name(y), name(x)>>

C10_Witness ==
  /\ mreport.ran /\ CycleAB(mentry.original) /\ ~mreport.crashed
  /\ Cardinality(CyclicalFindings(mentry.swaggerVersion, "A")) = 1
  /\ mruns = MaxRuns

-----------------------------------------------------------------------------
(* Properties of the API level (Spec, SpecValidate).                       *)

NoLibraryUse == [zschema |-> 0, jsonrefs |-> 0]

\* a call has delivered a result that is not a failure
Delivered(c) == Len(c.cbs) > 0 /\ c.cbs[1].err = "none"

\* the cache after the documents were resolved one after the other
RECURSIVE SequentialCache(_, _, _)
SequentialCache(entries, docs, k) ==
  IF k > Len(docs) THEN entries
  ELSE SequentialCache(storeResolved(getDocumentCache(entries, docs[k]), docs[k]),
                       docs, k + 1)

\* the per-document entries semantic validation yields when nothing runs
\* concurrently
SequentialDeclarations(rl, items) ==
  validateSemantically12(SequentialCache(<<>>, <<rl>> \o items, 1), rl, items)
    .results.apiDeclarations

\* C1: in a report of validate (1.2), apiDeclarations[i] holds the findings
\* of the i-th API declaration handed in: the structural errors of that
\* document when structural validation found any, else what semantic
\* validation of the documents in the order handed in yields for it --
\* whatever order the documents' validations and resolutions completed in.
C1_DeclarationsByIndex ==
  LET c == calls["c1"]
      items == c.subs.items
      decls == c.cbs[1].report.apiDeclarations
  IN (c.op = "validate" /\ c.version = "1.2" /\ Delivered(c) /\ c.cbs[1].report.defined) =>
       /\ Len(decls) = Len(items)
       /\ IF \E i \in 1..Len(items) : items[i].structural # <<>>
            THEN \A i \in 1..Len(items) :
                   /\ decls[i].defined = (items[i].structural # <<>>)
                   /\ decls[i].errors = StructuralResults(items[i]).errors
                   /\ decls[i].warnings = <<>>
            ELSE decls = SequentialDeclarations(c.doc, items)

\* a report with findings in one entry only, delivered after the later
\* document completed before the earlier one
C1_Witness ==
  LET c == calls["c1"]
  IN /\ c.op = "validate" /\ Delivered(c) /\ c.cbs[1].report.defined
     /\ c.order = <<2, 1>>
     /\ ~c.cbs[1].report.apiDeclarations[1].defined
     /\ Len(c.cbs[1].report.apiDeclarations[2].errors) > 0

\* C2: no content has two reference resolutions in flight at the same time.
C2_ResolverOncePerContent ==
  \A d \in Documents :
    Cardinality({cu \in Callers \X Units :
                   /\ cu[2] \in calls[cu[1]].pending
                   /\ UnitDocument(calls[cu[1]], cu[2]) = d}) <= 1

\* C3: once a unit of a validate has failed, the callback has been invoked
\* exactly once, with the failure and without a report, whatever the other
\* units did afterwards.
C3_FailureDeliveredOnce ==
  LET c == calls["c1"]
  IN (c.op = "validate" /\ c.failed # {}) =>
       /\ Len(c.cbs) = 1
       /\ c.cbs[1].err = "failure"
       /\ ~c.cbs[1].report.defined

\* the first of two units failed, the second completed successfully afterwards
C3_Witness ==
  LET c == calls["c1"]
  IN /\ c.op = "validate" /\ Len(c.order) = 2 /\ c.pending = {}
     /\ c.order[1] \in c.failed /\ c.order[2] \notin c.failed
     /\ Len(c.cbs) = 1

\* C4: of two resolve(document, callback) calls on the same structurally
\* valid document, the second made after the first has come to its end, both
\* deliver the same resolved tree, and the second uses neither ZSchema nor
\* JsonRefs.
C4_SecondResolveFromCache ==
  \A a, b \in Callers :
    (/\ calls[a].op = "resolve" /\ calls[b].op = "resolve"
     /\ a \in calls[b].after
     /\ calls[a].doc = calls[b].doc
     /\ isPlainObject(calls[a].doc) /\ calls[a].doc.structural = <<>>
     /\ calls[a].second.kind = "function" /\ calls[b].second.kind = "function"
     /\ calls[a].failed = {}) =>
      /\ Delivered(calls[a]) /\ Delivered(calls[b])
      /\ calls[a].cbs[1].value.kind = "tree"
      /\ calls[b].cbs[1].value = calls[a].cbs[1].value
      /\ calls[b].used = NoLibraryUse

\* validate was called with arguments that fail its checks
BadValidateCall(c) ==
  /\ c.op = "validate"
  /\ \/ c.doc.kind \in {"absent", "scalar"}
     \/ c.version = "1.2" /\ c.subs.shape # "array"

\* C5: a validate with an absent or non-object document, or (1.2) with
\* absent or non-array API declarations, throws: its callback is never
\* invoked, it uses no library, and the step that makes the call leaves the
\* document cache as it was.
C5_PreconditionThrows ==
  /\ [](\A c \in Callers :
          BadValidateCall(calls[c]) =>
            /\ calls[c].pc = "threw"
            /\ calls[c].cbs = <<>>
            /\ calls[c].used = NoLibraryUse)
  /\ [][\A c \in Callers :
          (calls[c].pc = "idle" /\ BadValidateCall(calls'[c])) =>
            (cache' = cache /\ libs' = libs)]_vars

\* a validate has thrown while the cache held documents
C5_Witness ==
  \E c \in Callers :
    /\ BadValidateCall(calls[c]) /\ calls[c].pc = "threw"
    /\ calls[c].subs.shape = "scalar"
    /\ cache # <<>>

\* C6: what validate delivers without a failure is absent exactly when the
\* results hold no error and no warning, at the top level and in every
\* apiDeclarations entry; otherwise it is the results, with at least one
\* finding.
C6_AbsentIffNoFindings ==
  LET c == calls["c1"]
      report == c.cbs[1].report
  IN (c.op = "validate" /\ Delivered(c)) =>
       /\ ~report.defined <=> CountFindings(c.raw) = 0
       /\ report.defined => (report = c.raw /\ CountFindings(report) >= 1)

\* a report whose only findings are in an apiDeclarations entry
C6_Witness ==
  LET c == calls["c1"]
  IN /\ c.op = "validate" /\ Delivered(c) /\ c.cbs[1].report.defined
     /\ c.cbs[1].report.errors = <<>> /\ c.cbs[1].report.warnings = <<>>
     /\ \A i \in 1..Len(c.subs.items) : c.subs.items[i].structural = <<>>

\* C7: composeSchema delivers the invalidity error only for a document with
\* at least one error.
C7_InvalidOnlyWithErrors ==
  \A c \in Callers :
    (calls[c].op = "composeSchema" /\ Len(calls[c].cbs) > 0
     /\ calls[c].cbs[1].err = "invalid") =>
      Len(calls[c].cbs[1].report.errors) > 0

\* C8: a resolve on a structurally valid document that has come to its end
\* without a failed resolution has delivered the node at the pointer when it
\* was given one, else the whole resolved tree.
C8_ResolveDelivers ==
  \A c \in Callers :
    (/\ calls[c].op = "resolve" /\ Finished(c)
     /\ isPlainObject(calls[c].doc) /\ calls[c].doc.structural = <<>>
     /\ calls[c].second.kind \in {"pointer", "function"}
     /\ calls[c].failed = {}) =>
      /\ Delivered(calls[c])
      /\ calls[c].cbs[1].value.tree = ResolveTree(calls[c].doc)
      /\ IF calls[c].second.kind = "pointer"
           THEN /\ calls[c].cbs[1].value.kind = "node"
                /\ calls[c].cbs[1].value.node = calls[c].second.path
           ELSE calls[c].cbs[1].value.kind = "tree"

-----------------------------------------------------------------------------
(* Properties of the validator level (SpecValidators).                     *)

\* the media types a consumes list declares
Declared(consumes) == IF consumes.set THEN Range(consumes.v) ELSE {}

\* str up to its first ";"
Cut(str) ==
  SubSeq(str, 1, CHOOSE k \in 0..Len(str) :
                   /\ k = Len(str) \/ str[k + 1] = ";"
                   /\ \A i \in 1..k : str[i] # ";")

\* a call of validateContentType for a POST or PUT request has returned
ContentTypeChecked ==
  vcall.fn = "validateContentType" /\ vcall.method \in {"POST", "PUT"}

\* C11 as stated: for a POST or PUT request, validateContentType fails
\* exactly when the content-type header (a missing one counting as
\* application/octet-stream), cut at its first ";", is not in the union of
\* the operation's and the global consumes; the message lists that union.
C11_FailsOutsideUnion ==
  ContentTypeChecked =>
    /\ vresult.thrown # "" <=>
         Cut(IF vcall.header.set THEN vcall.header.v ELSE OctetStream)
           \notin Declared(vcall.operation) \cup Declared(vcall.global)
    /\ vresult.thrown # "" =>
         Range(vresult.message[2]) = Declared(vcall.operation) \cup Declared(vcall.global)

\* C11 amended: for a POST or PUT request, validateContentType fails exactly
\* when the union of the operation's and the global consumes is not empty
\* and does not hold the content-type header (a missing or empty one counting
\* as application/octet-stream) cut at its first ";"; the message lists that
\* union.
C11_FailsOutsideDeclaredUnion ==
  ContentTypeChecked =>
    /\ vresult.thrown # "" <=>
         /\ Declared(vcall.operation) \cup Declared(vcall.global) # {}
         /\ Cut(IF vcall.header.set /\ vcall.header.v # <<>>
                  THEN vcall.header.v ELSE OctetStream)
              \notin Declared(vcall.operation) \cup Declared(vcall.global)
    /\ vresult.thrown # "" =>
         Range(vresult.message[2]) = Declared(vcall.operation) \cup Declared(vcall.global)

\* a POST with a type and a charset that neither consumes list declares has
\* failed, and a POST without any declared consumes has passed
C11_Witness ==
  /\ ContentTypeChecked
  /\ \/ /\ vcall.header = Set(<<"t", ";", "c">>)
        /\ vcall.operation = Set(<<Json>>) /\ vcall.global = Set(<<Xml>>)
        /\ vresult.thrown = "Error"
        /\ vresult.message = <<<<"t">>, <<Json, Xml>>>>
     \/ /\ vcall.header = Set(Json)
        /\ ~vcall.operation.set /\ vcall.global = Set(<<>>)
        /\ vresult.thrown = ""

\* C12: a request whose method is not POST or PUT passes validateContentType,
\* whatever its content-type header and the declared consumes.
C12_OtherMethodsPass ==
  (vcall.fn = "validateContentType" /\ vcall.method \notin {"POST", "PUT"}) =>
    vresult.thrown = ""

\* a GET with a content type outside the declared consumes has passed
C12_Witness ==
  /\ vcall.fn = "validateContentType" /\ vcall.method = "GET"
  /\ vcall.header = Set(<<"t", ";", "c">>)
  /\ vcall.operation = Set(<<Json>>) /\ vcall.global = Set(<<Json, Xml>>)
  /\ vresult.thrown = ""

\* a call of validateSchemaConstraints on a value that is there has returned
ConstraintsChecked ==
  vcall.fn = "validateSchemaConstraints" /\ vcall.value.kind # "undefined"

\* what each constraint, checked on its own, has against the value a, in the
\* order type/format, enum, maximum, maxItems, maxLength, maxProperties,
\* minimum, minItems, minLength, minProperties, multipleOf, pattern,
\* uniqueItems
Violations(a, n) ==
  <<validateTypeAndFormat(a, IF n.type = "array" THEN n.items.type ELSE n.type,
                          IF n.type = "array" /\ n.items.format # ""
                            THEN n.items.format ELSE n.format),
    validateEnum(a, n.enum),
    validateMaximum(a, n.maximum, n.type, n.exclusiveMaximum),
    validateMaxItems(a, n.maxItems),
    validateMaxLength(a, n.maxLength),
    validateMaxProperties(a, n.maxProperties),
    validateMinimum(a, n.minimum, n.type, n.exclusiveMinimum),
    validateMinItems(a, n.minItems),
    validateMinLength(a, n.minLength),
    validateMinProperties(a, n.minProperties),
    validateMultipleOf(a, n.multipleOf),
    validatePattern(a, n.pattern),
    validateUniqueItems(a, n.uniqueItems)>>

\* the failure of the earliest violated entry of a list, if any
Earliest(violations) ==
  IF \A i \in DOMAIN violations : violations[i] = "" THEN ""
  ELSE violations[CHOOSE i \in DOMAIN violations :
                    /\ violations[i] # ""
                    /\ \A j \in 1..(i - 1) : violations[j] = ""]

\* C13 as stated: validateSchemaConstraints on a value raises at most one
\* failure, the one of the earliest violated constraint in the order
\* type/format, enum, maximum, maxItems, maxLength, maxProperties, minimum,
\* minItems, minLength, minProperties, multipleOf, pattern, uniqueItems.
C13_EarliestViolation ==
  ConstraintsChecked => vresult.thrown = Earliest(Violations(vcall.value, vcall.schema))

\* C13 amended: validateSchemaConstraints on a value raises at most one
\* failure, the one earliest in the order: array type without items
\* (OBJECT_MISSING_REQUIRED_PROPERTY), type/format, enum, maximum, maxItems,
\* maxLength, maxProperties, minimum, minItems, minLength, minProperties,
\* multipleOf, pattern, uniqueItems.
C13_EarliestAfterArrayCheck ==
  ConstraintsChecked =>
    vresult.thrown = Earliest(<<validateArrayType(vcall.schema)>>
                              \o Violations(vcall.value, vcall.schema))

\* the integer "22" against maximum 1 and maxLength 1 has failed with
\* MAXIMUM, and a value against an array type without items with
\* OBJECT_MISSING_REQUIRED_PROPERTY
C13_Witness ==
  /\ ConstraintsChecked
  /\ \/ /\ vcall.value = StringValue(<<"2", "2">>)
        /\ vcall.schema.type = "integer"
        /\ vcall.schema.maximum = Set(<<"1">>) /\ vcall.schema.maxLength = Set(1)
        /\ vresult.thrown = "MAXIMUM"
     \/ /\ vcall.schema.type = "array" /\ ~vcall.schema.items.set
        /\ vcall.schema.maxLength = Set(1) /\ Length(vcall.value) > 1
        /\ vresult.thrown = "OBJECT_MISSING_REQUIRED_PROPERTY"

\* the whole of str is an integer literal, resp. a decimal literal
WholeInteger(str) == str # <<>> /\ \A i \in 1..Len(str) : IsDigit(str[i])

WholeNumber(str) ==
  /\ \E i \in 1..Len(str) : IsDigit(str[i])
  /\ \A i \in 1..Len(str) : IsDigit(str[i]) \/ str[i] = "."
  /\ \A i, j \in 1..Len(str) : (str[i] = "." /\ str[j] = ".") => i = j

WellFormed(str, type) ==
  IF type = "integer" THEN WholeInteger(str) ELSE WholeNumber(str)

\* C14: validateTypeAndFormat accepts a value for type integer (number)
\* only if the whole value parses as an integer (number); every other
\* value fails with INVALID_TYPE.
C14_WholeValueParses ==
  (/\ vcall.fn = "validateTypeAndFormat"
   /\ vcall.type \in {"integer", "number"}
   /\ vcall.value.kind = "string") =>
    vresult.thrown = IF WellFormed(vcall.value.str, vcall.type) THEN "" ELSE "INVALID_TYPE"

\* C15: for a value of type integer or number, validateMaximum (resp.
\* validateMinimum) fails exactly when the value as a number is greater
\* (resp. less) than the bound as a number, string-encoded bounds such as
\* "1.0" included; with the exclusive flag set equality fails too and the
\* code is MAXIMUM_EXCLUSIVE (resp. MINIMUM_EXCLUSIVE), else MAXIMUM (MINIMUM).
C15_BoundsCompareAsNumbers ==
  (/\ vcall.fn \in {"validateMaximum", "validateMinimum"}
   /\ vcall.bound.set
   /\ WellFormed(vcall.value.str, vcall.type)) =>
    vresult.thrown =
      IF \/ IF vcall.fn = "validateMaximum"
              THEN ToNumber(vcall.value.str).n > ToNumber(vcall.bound.v).n
              ELSE ToNumber(vcall.value.str).n < ToNumber(vcall.bound.v).n
         \/ /\ vcall.exclusive = Set(TRUE)
            /\ ToNumber(vcall.value.str).n = ToNumber(vcall.bound.v).n
        THEN IF vcall.fn = "validateMaximum"
               THEN (IF vcall.exclusive = Set(TRUE) THEN "MAXIMUM_EXCLUSIVE" ELSE "MAXIMUM")
               ELSE (IF vcall.exclusive = Set(TRUE) THEN "MINIMUM_EXCLUSIVE" ELSE "MINIMUM")
        ELSE ""

\* the integer "1" against the string-encoded maximum "1.0", exclusive, has
\* failed with MAXIMUM_EXCLUSIVE
C15_Witness ==
  /\ vcall.fn = "validateMaximum"
  /\ vcall.value = StringValue(<<"1">>) /\ vcall.type = "integer"
  /\ vcall.bound = Set(<<"1", ".", "0">>) /\ vcall.exclusive = Set(TRUE)
  /\ vresult.thrown = "MAXIMUM_EXCLUSIVE"

\* C16 as stated: an absent value fails with REQUIRED exactly when the
\* required flag is true; an absent value of a parameter without a default
\* gets no finding from validateSchemaConstraints, whatever else the
\* constraint declares.
C16_AbsentOptionalSilent ==
  /\ (vcall.fn = "validateRequiredness" /\ vcall.value.kind = "undefined") =>
       (vresult.thrown = "REQUIRED" <=> vcall.required = Set(TRUE))
  /\ (/\ vcall.fn = "validateSchemaConstraints"
      /\ vcall.value.kind = "undefined"
      /\ vcall.schema.default.kind = "undefined") =>
       vresult.thrown = ""

\* C16 amended: an absent value fails with REQUIRED exactly when the
\* required flag is true; an absent value of a parameter without a default
\* gets no finding from validateSchemaConstraints, whatever else the
\* constraint declares, except OBJECT_MISSING_REQUIRED_PROPERTY when the
\* constraint is of type array and declares no items.
C16_AbsentOptionalSilentButArray ==
  /\ (vcall.fn = "validateRequiredness" /\ vcall.value.kind = "undefined") =>
       (vresult.thrown = "REQUIRED" <=> vcall.required = Set(TRUE))
  /\ (/\ vcall.fn = "validateSchemaConstraints"
      /\ vcall.value.kind = "undefined"
      /\ vcall.schema.default.kind = "undefined") =>
       vresult.thrown = IF vcall.schema.type = "array" /\ ~vcall.schema.items.set
                          THEN "OBJECT_MISSING_REQUIRED_PROPERTY" ELSE ""

\* an absent value without default has passed a constraint that declares a
\* minimum and a minimal length
C16_Witness ==
  /\ vcall.fn = "validateSchemaConstraints"
  /\ vcall.value.kind = "undefined"
  /\ vcall.schema.type = "integer"
  /\ vcall.schema.minimum.set /\ vcall.schema.minLength.set
  /\ vresult.thrown = ""

C18_UniqueOnlyWhenTrue ==
  vcall.fn = "validateUniqueItems" =>
    (vresult.thrown = "ARRAY_UNIQUE" <=>
       /\ vcall.uniqueItems = Set(TRUE)
       /\ \E i, j \in 1..Len(vcall.value.items) :
            i # j /\ vcall.value.items[i] = vcall.value.items[j])

-----------------------------------------------------------------------------
(* Properties of the findings of validate (SpecValidate).                  *)

\* the codes of unused-entity findings
UnusedCodes ==
  {"UNUSED_MODEL", "UNUSED_DEFINITION", "UNUSED_AUTHORIZATION",
   "UNUSED_AUTHORIZATION_SCOPE", "UNUSED_SECURITY_DEFINITION",
   "UNUSED_SECURITY_DEFINITION_SCOPE", "UNUSED_PARAMETER", "UNUSED_RESPONSE",
   "UNUSED_RESOURCE_PATH"}

Codes(findings) == {findings[i].code : i \in 1..Len(findings)}

\* the codes in the errors (warnings) lists of the API declarations of a report
DeclarationErrorCodes(report) ==
  UNION {IF report.apiDeclarations[i].defined
           THEN Codes(report.apiDeclarations[i].errors) ELSE {} :
         i \in 1..Len(report.apiDeclarations)}

DeclarationWarningCodes(report) ==
  UNION {IF report.apiDeclarations[i].defined
           THEN Codes(report.apiDeclarations[i].warnings) ELSE {} :
         i \in 1..Len(report.apiDeclarations)}

\* validate has delivered a report with findings
Reported ==
  /\ calls["c1"].op = "validate" /\ Delivered(calls["c1"])
  /\ calls["c1"].cbs[1].report.defined

\* C19 as stated: no errors list of a report of validate, top-level or per
\* API declaration, holds a finding with an UNUSED_* code.
C19_UnusedNeverError ==
  Reported =>
    (Codes(calls["c1"].cbs[1].report.errors)
       \cup DeclarationErrorCodes(calls["c1"].cbs[1].report)) \cap UnusedCodes = {}

\* C19 amended: the only UNUSED_* code an errors list of a report of
\* validate holds is UNUSED_RESOURCE_PATH, in the top-level list; every other
\* UNUSED_* finding is in a warnings list.
C19_UnusedDefinitionsNeverError ==
  Reported =>
    /\ Codes(calls["c1"].cbs[1].report.errors) \cap UnusedCodes \subseteq {"UNUSED_RESOURCE_PATH"}
    /\ DeclarationErrorCodes(calls["c1"].cbs[1].report) \cap UnusedCodes = {}
    /\ "UNUSED_RESOURCE_PATH"
         \notin Codes(calls["c1"].cbs[1].report.warnings)
                  \cup DeclarationWarningCodes(calls["c1"].cbs[1].report)

\* a report holds an unused model as a warning of its API declaration and an
\* unused resource path as a top-level error
C19_Witness ==
  /\ Reported
  /\ "UNUSED_MODEL" \in DeclarationWarningCodes(calls["c1"].cbs[1].report)
  /\ "UNUSED_RESOURCE_PATH" \in Codes(calls["c1"].cbs[1].report.errors)

-----------------------------------------------------------------------------
(* Properties of the path parameters (SpecValidators).                     *)

\* the {placeholder} names of a path template
Placeholders(template) ==
  UNION {{template[i][k].text : k \in {j \in 1..Len(template[i]) : template[i][j].kind = "arg"}} :
         i \in 1..Len(template)}

\* the names of the path-location parameters an operation declares or
\* inherits from its path
PathParameters(item) ==
  {o.name : o \in {p \in Range(item.operations[1].parameters) \cup Range(item.parameters) :
                     p.in = "path"}}

\* the findings of a code reported at or below the operation of the call
OperationFindings(code) ==
  {i \in 1..Len(vresult.errors) :
     /\ vresult.errors[i].code = code
     /\ Len(vresult.errors[i].path) >= 3
     /\ vresult.errors[i].path[3] = vcall.item.operations[1].method}

\* C20: for an operation, MISSING_API_PATH_PARAMETER is reported exactly
\* when a placeholder of its path template has no path-location parameter
\* among its own and the inherited ones, and UNRESOLVABLE_API_PATH_PARAMETER
\* exactly when such a parameter names no placeholder of the template.
C20_PathParametersMatchPlaceholders ==
  vcall.fn = "validateParameters" =>
    /\ OperationFindings("MISSING_API_PATH_PARAMETER") # {} <=>
         Placeholders(vcall.template) \ PathParameters(vcall.item) # {}
    /\ OperationFindings("UNRESOLVABLE_API_PATH_PARAMETER") # {} <=>
         PathParameters(vcall.item) \ Placeholders(vcall.template) # {}

\* C21: within one operation DUPLICATE_PARAMETER is reported exactly when
\* two of its parameters have the same name and the same location; the same
\* name in two locations is no duplicate.
C21_DuplicateByNameAndLocation ==
  vcall.fn = "validateParameters" =>
    (OperationFindings("DUPLICATE_PARAMETER") # {} <=>
       \E i, j \in 1..Len(vcall.item.operations[1].parameters) :
         /\ i # j
         /\ vcall.item.operations[1].parameters[i].name
              = vcall.item.operations[1].parameters[j].name
         /\ vcall.item.operations[1].parameters[i].in
              = vcall.item.operations[1].parameters[j].in)

\* the number of placeholders among the first k pieces of segment i of a
\* template and in the segments before it
RECURSIVE PlaceholdersBefore(_, _, _)
PlaceholdersBefore(template, i, k) ==
  IF i = 0 THEN 0
  ELSE IF k = 0
    THEN PlaceholdersBefore(template, i - 1, IF i = 1 THEN 0 ELSE Len(template[i - 1]))
  ELSE (IF template[i][k].kind = "arg" THEN 1 ELSE 0) + PlaceholdersBefore(template, i, k - 1)

\* a template with every placeholder replaced by its position
Positional(template) ==
  [i \in 1..Len(template) |->
     [k \in 1..Len(template[i]) |->
        IF template[i][k].kind = "arg"
          THEN [kind |-> "pos", text |-> IdxStr(PlaceholdersBefore(template, i, k - 1))]
          ELSE template[i][k]]]

\* C22: DUPLICATE_API_PATH is reported for a path exactly when an earlier
\* path of the document is equal to it after every placeholder is replaced
\* by its position.
C22_DuplicateUpToPlaceholderNames ==
  vcall.fn = "validatePaths" =>
    \A k \in 1..Len(vcall.paths) :
      (\E i \in 1..Len(vresult.errors) :
         /\ vresult.errors[i].code = "DUPLICATE_API_PATH"
         /\ vresult.errors[i].path = <<"paths", vcall.paths[k]>>)
      <=> \E j \in 1..(k - 1) : Positional(vcall.paths[j]) = Positional(vcall.paths[k])

-----------------------------------------------------------------------------
(* Properties of lineage and memoization (SpecModels).                     *)

\* y is a direct parent of x in the document: x is among y's subTypes
\* (1.2), y is a target of x's allOf (2.0)
IsParent(doc, y, x) ==
  IF doc.swaggerVersion = "1.2"
    THEN Contains(Links(doc)[ModelIdx(doc, y)], x)
    ELSE Contains(Links(doc)[ModelIdx(doc, x)], y)

Keys(doc) == {doc.models[k].key : k \in 1..Len(doc.models)}

\* x is reached from z by following one or more direct-parent links
RECURSIVE ReachedByParents(_, _, _, _)
ReachedByParents(doc, z, x, steps) ==
  /\ steps > 0
  /\ \E y \in Keys(doc) :
       /\ IsParent(doc, y, z)
       /\ y = x \/ ReachedByParents(doc, y, x, steps - 1)

\* the definition node of model x in the entry
Node(defs, version, x) == defs[DefIdx(defs, ModelPtr(version, x))]

\* C25: after processDocument a model's node has cyclical = true exactly
\* when the model is reachable from itself by direct-parent links,
\* a model that is its own parent and one with several parents of which one
\* leads back included.
C25_CyclicalIffReachable ==
  (mreport.ran /\ ~mreport.crashed) =>
    \A x \in Keys(mentry.original) :
      Node(mentry.definitions, mentry.swaggerVersion, x).cyclical
        <=> ReachedByParents(mentry.original, x, x, Len(mentry.original.models))

\* C26: lineage computation terminates for every model of every document,
\* also when a model's ancestors hold a cycle that does not pass through
\* the model, and so does composition over the lineage.
C26_LineageTerminates ==
  /\ mreport.ran => ~mreport.crashed
  /\ mout.kind # "crash"

\* the definitions a first processDocument run leaves in a fresh entry of
\* the document
FirstRun(entry) ==
  processDocument(ResolvedEntry(NewEntry(entry.original), entry.resolved),
                  Acc(<<>>, <<>>, <<>>)).defs

SameLineage(defs, first, version, x) ==
  /\ Node(defs, version, x).parents = Node(first, version, x).parents
  /\ Node(defs, version, x).lineage = Node(first, version, x).lineage
  /\ Node(defs, version, x).cyclical = Node(first, version, x).cyclical

\* C27: whatever runs follow the first one on an entry, the parents, the
\* lineage and the cyclical flag of every model's node stay what the first
\* run made them.
C27_LineageComputedOnce ==
  mruns >= 1 =>
    \A x \in Keys(mentry.original) :
      SameLineage(mentry.definitions, FirstRun(mentry), mentry.swaggerVersion, x)

\* x and y are each other's only direct parent
TwoCycle(doc, x, y) ==
  /\ x # y
  /\ \A z \in Keys(doc) : IsParent(doc, z, x) <=> z = y
  /\ \A z \in Keys(doc) : IsParent(doc, z, y) <=> z = x

\* C23: semantic validation runs every check to the end: no finding stops
\* the run, and the report holds what each check raises on its own, such as
\* the cyclical inheritance of two models that are each other's parent
\* whatever the other models of the document are.
C23_EveryCheckRuns ==
  mreport.ran =>
    /\ ~mreport.crashed
    /\ \A x, y \in Keys(mentry.original) :
         TwoCycle(mentry.original, x, y) => CyclicalFindings(mentry.swaggerVersion, x) # {}

-----------------------------------------------------------------------------
(* Properties of the registry (Spec).                                      *)

\* the trees of entry i and the arguments of the calls in progress are the
\* same before and after a step
TreesKept(i) ==
  /\ i <= Len(cache')
  /\ cache'[i].original = cache[i].original
  /\ cache[i].hasResolved =>
       cache'[i].hasResolved /\ cache'[i].resolved = cache[i].resolved

ArgumentsKept(c) ==
  calls[c].pc # "idle" => calls'[c].doc = calls[c].doc /\ calls'[c].subs = calls[c].subs

\* C24: validate, resolve, composeSchema and validateModel never modify the
\* document the caller passed nor the original and resolved trees of a
\* registry entry once resolved: no step changes the original tree of an
\* entry, the resolved tree of a resolved entry, or the document of a call
\* in progress; the composed schema is delivered as a value of its own
C24_TreesNeverModified ==
  [][(\A i \in 1..Len(cache) : TreesKept(i)) /\ (\A c \in Callers : ArgumentsKept(c))]_vars

\* a schema composed from an entry whose resolved tree differs from its
\* original has been delivered
C24_Witness ==
  \E c \in Callers :
    /\ calls[c].op = "composeSchema" /\ calls[c].pc = "returned"
    /\ calls[c].cbs[1].value.kind = "schema"
    /\ CacheIdx(cache, calls[c].doc) # 0
    /\ cache[CacheIdx(cache, calls[c].doc)].hasResolved
    /\ cache[CacheIdx(cache, calls[c].doc)].resolved # calls[c].doc
    /\ cache[CacheIdx(cache, calls[c].doc)].original = calls[c].doc

-----------------------------------------------------------------------------
(* Properties of the order of structural and semantic validation            *)
(* (SpecValidate).                                                          *)

\* what semantic validation leaves behind: E writes the definitions of the
\* entries it processes, and an exception inside A ends the call
SemanticStarted ==
  \/ calls["c1"].pc = "crashed"
  \/ \E i \in 1..Len(cache) : cache[i].definitions # <<>>

StructurallyClean(c) ==
  /\ c.doc.structural = <<>>
  /\ \A i \in 1..Len(c.subs.items) : c.subs.items[i].structural = <<>>

\* the findings of structural validation: those of the top-level document,
\* or the per-document findings when the top-level document has none
StructuralReport(c) ==
  IF c.doc.structural # <<>> THEN StructuralResults(c.doc)
  ELSE Results(<<>>, <<>>,
               [i \in 1..Len(c.subs.items) |->
                  IF c.subs.items[i].structural # <<>>
                    THEN [defined |-> TRUE,
                          errors |-> StructuralResults(c.subs.items[i]).errors,
                          warnings |-> <<>>]
                    ELSE UndefinedDeclaration])

\* C30: in a validate run semantic validation starts only after structural
\* validation of the top-level document and of every sub-document has
\* completed without a finding (nothing is pending, nothing failed, every
\* sub-document has completed); when structural validation reports a
\* finding, what the callback receives is the structural findings alone, and
\* no semantic check has run.
C30_SemanticAfterCleanStructural ==
  LET c == calls["c1"]
  IN c.op = "validate" =>
       /\ SemanticStarted =>
            /\ StructurallyClean(c) /\ c.pending = {} /\ c.failed = {}
            /\ c.version = "1.2" => c.completed = Len(c.subs.items)
       /\ (Delivered(c) /\ ~StructurallyClean(c)) =>
            /\ c.cbs[1].report = StructuralReport(c)
            /\ ~SemanticStarted

\* a report that holds the structural errors of one API declaration while
\* the other declares a model nothing refers to, delivered after a
\* resolution was awaited
C30_Witness ==
  LET c == calls["c1"]
  IN /\ c.op = "validate" /\ Delivered(c) /\ c.cbs[1].report.defined
     /\ Len(c.subs.items) = 2
     /\ c.subs.items[1] = AdModel /\ c.subs.items[2] = AdBad
     /\ c.used.jsonrefs > 0

-----------------------------------------------------------------------------
(* Properties of repeated validation (Spec).                               *)

\* caller d made the validate call of caller c again, after that call had
\* come to its end
Repeats(c, d) ==
  /\ calls[c].op = "validate" /\ calls[d].op = "validate"
  /\ c \in calls[d].after
  /\ calls[d].version = calls[c].version
  /\ calls[d].doc = calls[c].doc /\ calls[d].subs = calls[c].subs
  /\ Delivered(calls[c])
  /\ Finished(d)

\* C28: a validate called again on the same unchanged documents, after the
\* first call delivered its report, delivers an equal report: every error
\* and warning of the first run is reported again by the run served from
\* the registry.
C28_RepeatedValidateEqual ==
  \A c, d \in Callers :
    Repeats(c, d) => Delivered(calls[d]) /\ calls[d].cbs[1].report = calls[c].cbs[1].report

\* what validate delivers for the documents of call c when the registry is
\* empty and nothing runs next to it
FreshReport(c) ==
  validateSemantically(c.version, SequentialCache(<<>>, <<c.doc>> \o c.subs.items, 1),
                       c.doc, c.subs.items).results

\* C29: the report validate delivers depends only on the content of its
\* documents, not on what the registry held before: for structurally clean
\* documents it is the report of a validate on an empty registry, whichever
\* documents were validated, resolved or composed earlier (a document whose
\* resolved form equals this document among them).
C29_ReportDependsOnContentOnly ==
  \A d \in Callers :
    (calls[d].op = "validate" /\ Delivered(calls[d]) /\ StructurallyClean(calls[d])) =>
      calls[d].cbs[1].report = FreshReport(calls[d])

====
